---- MODULE Spec2Model ----
(***************************************************************************)
(* Model of multi_agent_system.py: the workspace file tools built by       *)
(* MCPIntegration (read_file, write_file, list_files), the server          *)
(* configuration it loads, and MultiAgentSystem's team setup and           *)
(* start_conversation.                                                     *)
(*                                                                         *)
(* The file system is a tree of nodes named by their absolute component    *)
(* sequence.  The process runs with working directory /app, so the tools'  *)
(* Path("workspace") is /app/workspace.  Python strings are sequences of   *)
(* one-character strings where the code looks inside them (file content)   *)
(* and TLA+ strings where it only formats them (messages).                 *)
(***************************************************************************)
EXTENDS Naturals, Sequences, FiniteSets, TLC

VARIABLES
    fs,             \* the file system: node path -> [type, data]
    fsBefore,       \* the file system as it was when the last tool call started
    ret,            \* the last tool call, or the load_config call that raised:
                    \* operation, arguments, outcome
    calls,          \* number of tool calls made so far
    written,        \* path argument -> the content last written to it with success
    configFile,     \* mcp_servers.json as it is on disk when the program starts
    groq_api_key,   \* whether a Groq API key is given or in the environment
    log_file,       \* os.getenv('LOG_FILE', 'autogen_studio.log') at import
    log_level,      \* os.getenv('LOG_LEVEL', 'INFO') at import
    has_messages,   \* whether a team object of the library has a messages attribute
    pc,             \* "new", then "ready" or "failed" once MultiAgentSystem() ran
    servers,        \* MCPIntegration.servers, a dict in insertion order
    tool_functions, \* MultiAgentSystem.tool_functions, the names in dict order
    listed,         \* the last result of MCPIntegration.get_available_tools
    built,          \* the last result of a create_tool_functions call made later
    agents,         \* MultiAgentSystem.agents, a dict in insertion order
    team,           \* MultiAgentSystem.team
    conv,           \* the outcome of the last start_conversation
    created,        \* the names given to agents so far, and those given again
    saved,          \* the last save_conversation_history call and its outcome
    local,          \* the files create_github_repo.py finds in its directory
    upload          \* create_github_repo.main(): its position, token and queue

fsVars == <<fs, fsBefore, ret, calls, written>>

sysVars ==
    <<configFile, groq_api_key, log_file, log_level, has_messages, pc, servers, tool_functions, listed, built,
      agents, team, conv, created, saved, local, upload>>

vars == <<fsVars, sysVars>>

\* Bound on the number of tool calls of one behaviour.
MaxCalls == 3

-----------------------------------------------------------------------------
(* Sequences and strings *)

Front(s) == SubSeq(s, 1, Len(s) - 1)

Last(s) == s[Len(s)]

Range(s) == { s[i] : i \in DOMAIN s }

\* The Python str whose characters are chars.
RECURSIVE Str(_)
Str(chars) ==
    IF chars = <<>> THEN ""
    ELSE IF Len(chars) = 1 THEN chars[1]
    ELSE LET half == Len(chars) \div 2 IN
         Str(SubSeq(chars, 1, half)) \o Str(SubSeq(chars, half + 1, Len(chars)))

\* "/".join(parts)
RECURSIVE JoinStr(_, _)
JoinStr(parts, sep) ==
    IF parts = <<>> THEN ""
    ELSE IF Len(parts) = 1 THEN parts[1]
    ELSE parts[1] \o sep \o JoinStr(Tail(parts), sep)

\* All orders in which the members of the finite set S can be enumerated.
Perms(S) ==
    { p \in [1..Cardinality(S) -> S] : \A x \in S : \E i \in DOMAIN p : p[i] = x }

-----------------------------------------------------------------------------
(* pathlib: a path is its anchor (absolute or not) and its components.     *)
(* pathlib drops "." components and keeps ".." ones.                       *)

Root == <<>>

Cwd == <<"app">>

\* Path("workspace") / file_path.  An absolute right operand replaces the left.
WorkspacePath(arg) ==
    IF arg.abs THEN [abs |-> TRUE, parts |-> arg.parts]
    ELSE [abs |-> FALSE, parts |-> <<"workspace">> \o arg.parts]

\* Path.parent: lexical, the path without its last component.
Parent(p) == IF p.parts = <<>> THEN p ELSE [p EXCEPT !.parts = Front(p.parts)]

\* str(path)
PathStr(p) ==
    IF p.abs THEN "/" \o JoinStr(p.parts, "/")
    ELSE IF p.parts = <<>> THEN "."
    ELSE JoinStr(p.parts, "/")

-----------------------------------------------------------------------------
(* The operating system's view of a path *)

Dir == [type |-> "dir", data |-> <<>>]

File(bytes) == [type |-> "file", data |-> bytes]

ErrText(errno) ==
    CASE errno = "ENOENT" -> "[Errno 2] No such file or directory: "
      [] errno = "EEXIST" -> "[Errno 17] File exists: "
      [] errno = "ENOTDIR" -> "[Errno 20] Not a directory: "
      [] errno = "EISDIR" -> "[Errno 21] Is a directory: "

\* str(e) of the OSError raised for errno on path p
OSErrorStr(errno, p) == ErrText(errno) \o "'" \o PathStr(p) \o "'"

\* Name lookup from directory node along parts: the node reached, or the errno.
RECURSIVE Resolve(_, _, _)
Resolve(f, node, parts) ==
    IF node \notin DOMAIN f THEN [err |-> "ENOENT", node |-> node]
    ELSE IF parts = <<>> THEN [err |-> "", node |-> node]
    ELSE IF f[node].type # "dir" THEN [err |-> "ENOTDIR", node |-> node]
    ELSE IF Head(parts) = ".."
         THEN Resolve(f, IF node = Root THEN Root ELSE Front(node), Tail(parts))
    ELSE Resolve(f, Append(node, Head(parts)), Tail(parts))

Start(p) == IF p.abs THEN Root ELSE Cwd

Lookup(f, p) == Resolve(f, Start(p), p.parts)

\* Path.exists(): stat succeeded (ENOENT and ENOTDIR are reported as False)
Exists(f, p) == Lookup(f, p).err = ""

\* Path.is_dir()
IsDir(f, p) == Exists(f, p) /\ f[Lookup(f, p).node].type = "dir"

\* The directory that holds p's last component, for a call that creates it.
\* slot is "new" when the last component names no node yet, "old" otherwise.
Target(f, p) ==
    IF p.parts = <<>> THEN [err |-> "", slot |-> "old", node |-> Start(p)]
    ELSE LET d == Resolve(f, Start(p), Front(p.parts)) IN
         IF d.err # "" THEN [err |-> d.err, slot |-> "old", node |-> d.node]
         ELSE IF f[d.node].type # "dir"
              THEN [err |-> "ENOTDIR", slot |-> "old", node |-> d.node]
         ELSE IF Last(p.parts) = ".."
              THEN [err |-> "", slot |-> "old",
                    node |-> IF d.node = Root THEN Root ELSE Front(d.node)]
         ELSE LET n == Append(d.node, Last(p.parts)) IN
              [err |-> "", slot |-> IF n \in DOMAIN f THEN "old" ELSE "new",
               node |-> n]

\* f with node n set to value v
Put(f, n, v) == [m \in DOMAIN f \cup {n} |-> IF m = n THEN v ELSE f[m]]

\* os.mkdir(p)
OsMkdir(f, p) ==
    LET t == Target(f, p) IN
    IF t.err # "" THEN [err |-> t.err, fs |-> f]
    ELSE IF t.slot = "old" THEN [err |-> "EEXIST", fs |-> f]
    ELSE [err |-> "", fs |-> Put(f, t.node, Dir)]

\* Path.mkdir(parents, exist_ok=True): os.mkdir, creating the missing parents
\* first when parents is set, and accepting an existing directory.
RECURSIVE PathMkdir(_, _, _)
PathMkdir(f, p, parents) ==
    LET r == OsMkdir(f, p) IN
    IF r.err = "" THEN [err |-> "", path |-> p, fs |-> r.fs]
    ELSE IF r.err = "ENOENT"
         THEN IF ~parents \/ Parent(p) = p
              THEN [err |-> "ENOENT", path |-> p, fs |-> f]
              ELSE LET up == PathMkdir(f, Parent(p), TRUE) IN
                   IF up.err # "" THEN up ELSE PathMkdir(up.fs, p, FALSE)
    ELSE IF IsDir(f, p) THEN [err |-> "", path |-> p, fs |-> f]
    ELSE [err |-> r.err, path |-> p, fs |-> f]

\* open(p, 'a'): create the file or keep what it holds, and write bytes at its end
OpenWriteAppend(f, p, bytes) ==
    LET t == Target(f, p) IN
    IF t.err # "" THEN [err |-> t.err, fs |-> f]
    ELSE IF t.slot = "old" /\ f[t.node].type = "dir" THEN [err |-> "EISDIR", fs |-> f]
    ELSE [err |-> "",
          fs |-> Put(f, t.node,
                     File((IF t.slot = "old" THEN f[t.node].data ELSE <<>>) \o bytes))]

\* open(p, 'w'): create or truncate the file and write bytes to it
OpenWrite(f, p, bytes) ==
    LET t == Target(f, p) IN
    IF t.err # "" THEN [err |-> t.err, fs |-> f]
    ELSE IF t.slot = "old" /\ f[t.node].type = "dir" THEN [err |-> "EISDIR", fs |-> f]
    ELSE [err |-> "", fs |-> Put(f, t.node, File(bytes))]

\* os.linesep of the platform
LineSep == <<"\n">>

\* Text-mode write with newline=None: every "\n" becomes os.linesep.
RECURSIVE WriteTranslate(_)
WriteTranslate(chars) ==
    IF chars = <<>> THEN <<>>
    ELSE IF Len(chars) = 1
         THEN (IF chars[1] = "\n" THEN LineSep ELSE chars)
    ELSE LET half == Len(chars) \div 2 IN
         WriteTranslate(SubSeq(chars, 1, half))
         \o WriteTranslate(SubSeq(chars, half + 1, Len(chars)))

\* Text-mode read with newline=None (universal newlines): "\r\n" and a lone
\* "\r" are both returned as "\n".
ReadTranslate(bytes) ==
    LET marked == [i \in DOMAIN bytes |->
                     [char |-> IF bytes[i] = "\r" THEN "\n" ELSE bytes[i],
                      second |-> bytes[i] = "\n" /\ i > 1 /\ bytes[i - 1] = "\r"]]
        kept == SelectSeq(marked, LAMBDA m : ~m.second)
    IN  [i \in DOMAIN kept |-> kept[i].char]

\* The entries of directory node d
Children(f, d) == { n \in DOMAIN f : Len(n) = Len(d) + 1 /\ Front(n) = d }

-----------------------------------------------------------------------------
(* The tool functions.  A body yields either a value or the exception it   *)
(* raised (exc, with str(e) in msg), and the file system it leaves.        *)

Returned(v, f) == [exc |-> FALSE, msg |-> "", value |-> v, fs |-> f]

Raised(m, f) == [exc |-> TRUE, msg |-> m, value |-> "", fs |-> f]

\* str(e) of the TypeError of Path("workspace") / None
DivTypeError == "unsupported operand type(s) for /: 'PosixPath' and 'NoneType'"

\* str(e) of the TypeError of write_text(None)
DataTypeError == "data must be str, not NoneType"

\* read_file with no exists() test before read_text()
ReadFileBodyNoTest(f, arg) ==
    IF ~arg.isStr THEN Raised(DivTypeError, f)
    ELSE LET workspace_path == WorkspacePath(arg)
             l == Lookup(f, workspace_path)
         IN  IF l.err # "" THEN Raised(OSErrorStr(l.err, workspace_path), f)
             ELSE IF f[l.node].type = "dir"
                  THEN Raised(OSErrorStr("EISDIR", workspace_path), f)
             ELSE Returned(Str(ReadTranslate(f[l.node].data)), f)

\* The try block of read_file
ReadFileBody(f, arg) ==
    IF ~arg.isStr THEN Raised(DivTypeError, f)
    ELSE LET workspace_path == WorkspacePath(arg) IN
         IF Exists(f, workspace_path)
         THEN LET n == Lookup(f, workspace_path).node IN
              IF f[n].type = "dir"
              THEN Raised(OSErrorStr("EISDIR", workspace_path), f)
              ELSE Returned(Str(ReadTranslate(f[n].data)), f)
         ELSE Returned("File not found: " \o arg.str, f)

\* The try block of write_file
WriteFileBody(f, arg, content) ==
    IF ~arg.isStr THEN Raised(DivTypeError, f)
    ELSE LET workspace_path == WorkspacePath(arg)
             made == PathMkdir(f, Parent(workspace_path), TRUE)
         IN  IF made.err # "" THEN Raised(OSErrorStr(made.err, made.path), made.fs)
             ELSE IF ~content.isStr THEN Raised(DataTypeError, made.fs)
             ELSE LET w == OpenWrite(made.fs, workspace_path,
                                     WriteTranslate(content.chars)) IN
                  IF w.err # "" THEN Raised(OSErrorStr(w.err, workspace_path), w.fs)
                  ELSE Returned("File written successfully: " \o arg.str, w.fs)

\* list_files that names the regular files only
ListFilesBodyFilesOnly(f, arg, order) ==
    IF ~arg.isStr THEN Raised(DivTypeError, f)
    ELSE LET workspace_path == WorkspacePath(arg) IN
         IF Exists(f, workspace_path) /\ IsDir(f, workspace_path)
         THEN LET kept == SelectSeq(order, LAMBDA n : f[n].type = "file")
                  files == [i \in DOMAIN kept |-> Last(kept[i])]
              IN  Returned("Files in " \o arg.str \o ": " \o JoinStr(files, ", "), f)
         ELSE Returned("Directory not found: " \o arg.str, f)

\* The try block of list_files; order is the order in which the operating
\* system enumerates the directory.
ListFilesBody(f, arg, order) ==
    IF ~arg.isStr THEN Raised(DivTypeError, f)
    ELSE LET workspace_path == WorkspacePath(arg) IN
         IF Exists(f, workspace_path) /\ IsDir(f, workspace_path)
         THEN LET files == [i \in DOMAIN order |-> Last(order[i])] IN
              Returned("Files in " \o arg.str \o ": " \o JoinStr(files, ", "), f)
         ELSE Returned("Directory not found: " \o arg.str, f)

\* The directory list_files enumerates for arg, if any.
Listed(f, arg) ==
    IF arg.isStr /\ IsDir(f, WorkspacePath(arg))
    THEN Children(f, Lookup(f, WorkspacePath(arg)).node)
    ELSE {}

\* The tool body called with no except clause around it: an exception of the
\* body reaches the caller.
SoftFailNoCatch(prefix, body) ==
    [raised |-> body.exc, value |-> body.value, fs |-> body.fs]

\* try: ... except Exception as e: return f"{prefix}{str(e)}"
\* What the caller of the tool gets: a returned string, never a raise.
SoftFail(prefix, body) ==
    [raised |-> FALSE,
     value |-> IF body.exc THEN prefix \o body.msg ELSE body.value,
     fs |-> body.fs]

read_file(f, file_path) ==
    SoftFail("Error reading file: ", ReadFileBody(f, file_path))

write_file(f, file_path, content) ==
    SoftFail("Error writing file: ", WriteFileBody(f, file_path, content))

list_files(f, directory, order) ==
    SoftFail("Error listing files: ", ListFilesBody(f, directory, order))

\* A Python value that is a str or None: [isStr, chars].  f"{v}" of it:
Format(v) == IF v.isStr THEN Str(v.chars) ELSE "None"

\* bool(v)
Truthy(v) == v.isStr /\ v.chars # <<>>

\* What the caller of a function with no try block gets when it returns value
Stub(value, f) == [raised |-> FALSE, value |-> value, fs |-> f]

\* What the caller gets when the function raises
StubRaised(f) == [raised |-> TRUE, value |-> "", fs |-> f]

github_search(f, query) ==
    Stub("GitHub search results for '" \o Format(query)
           \o "': [Connected via MCP GitHub server]", f)

\* github_list_repos that builds its text with "..." + username + "..."
github_list_repos_concat(f, username) ==
    IF ~username.isStr THEN StubRaised(f)
    ELSE Stub("Listing repositories for user '" \o Str(username.chars)
                \o "': [Connected via MCP GitHub server]", f)

github_list_repos(f, username) ==
    IF Truthy(username)
    THEN Stub("Listing repositories for user '" \o Format(username)
                \o "': [Connected via MCP GitHub server]", f)
    ELSE Stub("Listing your repositories: [Connected via MCP GitHub server]", f)

github_get_file(f, repo, file_path, branch) ==
    Stub("Getting file '" \o Format(file_path) \o "' from repository '"
           \o Format(repo) \o "' (branch: " \o Format(branch)
           \o "): [Connected via MCP GitHub server]", f)

-----------------------------------------------------------------------------
(* Python dicts: a sequence of [key, val] entries in insertion order *)

Keys(d) == [i \in DOMAIN d |-> d[i].key]

Values(d) == [i \in DOMAIN d |-> d[i].val]

HasKey(d, k) == \E i \in DOMAIN d : d[i].key = k

\* d[k] = v: an existing key keeps its position and takes the new value
DictSet(d, k, v) ==
    IF HasKey(d, k)
    THEN [i \in DOMAIN d |-> IF d[i].key = k THEN [key |-> k, val |-> v] ELSE d[i]]
    ELSE Append(d, [key |-> k, val |-> v])

\* The dict json.load builds from the members of a JSON object, in file order
RECURSIVE DictFromPairs(_)
DictFromPairs(pairs) ==
    IF pairs = <<>> THEN <<>>
    ELSE LET rest == DictFromPairs(Front(pairs)) IN
         DictSet(rest, Last(pairs)[1], Last(pairs)[2])

\* The JSON null, None once loaded, where an object is expected
Null == [null |-> TRUE]

\* server_config.get(k, default)
Get(cfg, k, default) == IF k \in DOMAIN cfg THEN cfg[k] ELSE default

-----------------------------------------------------------------------------
(* The log file *)

\* os.getenv('LOG_FILE', 'autogen_studio.log'): the default, a name relative
\* to the working directory, or a file outside the tree followed here
LogDefault == "autogen_studio.log"

LogElsewhere == "/var/log/autogen_studio.log"

\* The file the default names, /app/autogen_studio.log
LogPath == Append(Cwd, LogDefault)

\* Bound on the number of records the construction and the team operations of
\* a behaviour leave in the log file; a save starts on a log within the bound.
MaxLog == 4

\* One record of the log, a line of the format of logging.basicConfig,
\* '%(asctime)s - %(name)s - %(levelname)s - %(message)s'.  The record is one
\* element of the file's data; the time and the logger's name change from run
\* to run and are left out.
LogRecord(levelname, message) ==
    [levelname |-> levelname, line |-> levelname \o " - " \o message \o "\n"]

\* The numeric value of a level name, getattr(logging, name)
LevelNo(levelname) ==
    CASE levelname = "DEBUG" -> 10
      [] levelname = "INFO" -> 20
      [] levelname = "WARNING" -> 30
      [] levelname = "ERROR" -> 40
      [] levelname = "CRITICAL" -> 50

\* The settings of the log the program is started with: the default file at
\* the default level, at a level that passes warnings only and at one that
\* passes neither; and a file elsewhere.  DEBUG passes what INFO does and
\* CRITICAL what ERROR does, for no record of the program is below INFO or
\* above WARNING; a LOG_LEVEL that names no level ends the import with
\* AttributeError, before any state of the system.
LogSettings ==
    { <<LogDefault, lv>> : lv \in {"INFO", "WARNING", "ERROR"} }
    \cup { <<LogElsewhere, "INFO">> }

\* The settings with LOG_LEVEL unset, every record of the program logged
LogSettingsInfo == { ls \in LogSettings : ls[2] = "INFO" }

\* The lines of the records that pass the level of the root logger
Emitted(lv, records) ==
    LET pass == SelectSeq(records, LAMBDA r : LevelNo(r.levelname) >= LevelNo(lv))
    IN  [i \in DOMAIN pass |-> pass[i].line]

\* logging.FileHandler(...) at import: the file is opened for appending, and
\* created empty when it does not exist
WithLog(f, lf) ==
    IF lf = LogDefault /\ LogPath \notin DOMAIN f THEN Put(f, LogPath, File(<<>>))
    ELSE f

\* The tree once the handler has appended to the log file the records that
\* pass the level lv
Logged(f, lf, lv, records) ==
    IF lf = LogDefault /\ LogPath \in DOMAIN f
    THEN [f EXCEPT ![LogPath].data = @ \o Emitted(lv, records)]
    ELSE f

\* The log file of the tree can take k more lines within the bound
LogRoom(f, lf, k) ==
    IF lf = LogDefault /\ LogPath \in DOMAIN f
    THEN Len(f[LogPath].data) + k <= MaxLog
    ELSE TRUE

\* The lines in the log file of the tree, none when it lies elsewhere
LogOf(f) == IF LogPath \in DOMAIN f THEN f[LogPath].data ELSE <<>>

\* The tree without its log file
SansLog(f) == [n \in DOMAIN f \ {LogPath} |-> f[n]]

-----------------------------------------------------------------------------
(* MCPIntegration *)

\* logger.info(f"Loaded {len(self.servers)} MCP server configurations")
Loaded(srv) ==
    LogRecord("INFO", "Loaded " \o ToString(Len(srv)) \o " MCP server configurations")

\* MCPIntegration.load_config on the file the path holds: set tells whether
\* self.servers was assigned, and servers is what it was assigned.  A file that
\* does not exist is logged and leaves self.servers as it was.  Nothing is
\* caught: open() raises IsADirectoryError on a directory, json.load raises
\* UnicodeDecodeError on bytes that are not UTF-8 and JSONDecodeError on text
\* that is not JSON, config.get raises AttributeError when the JSON value is
\* not an object, and len(self.servers) raises TypeError when the "servers"
\* member is null, after self.servers was assigned None.  The records are
\* those it hands to the logger.
load_config(file) ==
    LET failed(exc) == [err |-> exc, set |-> FALSE, servers |-> <<>>, records |-> <<>>] IN
    IF ~file.exists
    THEN [err |-> "", set |-> FALSE, servers |-> <<>>,
          records |-> <<LogRecord("WARNING",
                                  "MCP config file not found: mcp_servers.json")>>]
    ELSE IF file.shape = "directory" THEN failed("IsADirectoryError")
    ELSE IF file.shape = "bytes" THEN failed("UnicodeDecodeError")
    ELSE IF file.shape = "text" THEN failed("JSONDecodeError")
    ELSE IF file.shape = "value" THEN failed("AttributeError")
    ELSE IF ~file.hasServers
    THEN [err |-> "", set |-> TRUE, servers |-> <<>>, records |-> <<Loaded(<<>>)>>]
    ELSE IF file.serversNull
    THEN [err |-> "TypeError", set |-> TRUE, servers |-> Null, records |-> <<>>]
    ELSE [err |-> "", set |-> TRUE, servers |-> DictFromPairs(file.pairs),
          records |-> <<Loaded(DictFromPairs(file.pairs))>>]

\* MCPIntegration.get_available_tools with the servers that lack a description
\* left out
get_available_tools_described(srv) ==
    LET RECURSIVE Keep(_)
        Keep(d) ==
            IF d = <<>> THEN <<>>
            ELSE (IF "description" \in DOMAIN Head(d).val
                  THEN <<[name |-> Head(d).key,
                          description |-> Head(d).val["description"],
                          command |-> Get(Head(d).val, "command", ""),
                          args |-> Get(Head(d).val, "args", <<>>)]>>
                  ELSE <<>>) \o Keep(Tail(d))
    IN  IF \E i \in DOMAIN srv : srv[i].val = Null
        THEN [err |-> "AttributeError", tools |-> <<>>]
        ELSE [err |-> "", tools |-> Keep(srv)]

\* MCPIntegration.get_available_tools: one entry for each server, in the
\* order of the dict.  server_config.get raises AttributeError on a server
\* whose configuration is null, and the call returns no list.
get_available_tools(srv) ==
    IF \E i \in DOMAIN srv : srv[i].val = Null
    THEN [err |-> "AttributeError", tools |-> <<>>]
    ELSE [err |-> "",
          tools |-> [i \in DOMAIN srv |->
                       [name |-> srv[i].key,
                        description |-> Get(srv[i].val, "description", ""),
                        command |-> Get(srv[i].val, "command", ""),
                        args |-> Get(srv[i].val, "args", <<>>)]]]

\* create_tool_functions with the remote-repository tools built under the
\* file-system group's membership test
create_tool_functions_one_test(srv) ==
    (IF HasKey(srv, "fs") THEN <<"read_file", "write_file", "list_files">> ELSE <<>>)
    \o (IF HasKey(srv, "fs")
        THEN <<"github_search", "github_list_repos", "github_get_file">>
        ELSE <<>>)

\* create_tool_functions with the web search tool (_create_web_search_function)
\* built for a search server
create_tool_functions_web(srv) ==
    (IF HasKey(srv, "fs") THEN <<"read_file", "write_file", "list_files">> ELSE <<>>)
    \o (IF HasKey(srv, "github")
        THEN <<"github_search", "github_list_repos", "github_get_file">>
        ELSE <<>>)
    \o (IF HasKey(srv, "brave-search") THEN <<"web_search">> ELSE <<>>)

\* A build of the tool functions that prepares the workspace directory for the
\* file tools
BuildEffectMkdir(f, srv) ==
    IF HasKey(srv, "fs")
    THEN PathMkdir(f, [abs |-> FALSE, parts |-> <<"workspace">>], TRUE).fs
    ELSE f

\* create_tool_functions that builds only the tools the system's registry does
\* not hold yet
create_tool_functions_missing(srv) ==
    SelectSeq((IF HasKey(srv, "fs")
               THEN <<"read_file", "write_file", "list_files">> ELSE <<>>)
              \o (IF HasKey(srv, "github")
                  THEN <<"github_search", "github_list_repos", "github_get_file">>
                  ELSE <<>>),
              LAMBDA name : \A i \in DOMAIN tool_functions : tool_functions[i] # name)

\* MCPIntegration.create_tool_functions: the keys of the dict it returns, in
\* the order of their insertion into the dict the call starts empty.  The call
\* reads self.servers and nothing else of the object.
create_tool_functions(srv) ==
    (IF HasKey(srv, "fs") THEN <<"read_file", "write_file", "list_files">> ELSE <<>>)
    \o (IF HasKey(srv, "github")
        THEN <<"github_search", "github_list_repos", "github_get_file">>
        ELSE <<>>)

\* The file system after create_tool_functions ran on f: the _create_*_function
\* methods define closures and call nothing.
BuildEffect(f, srv) == f

-----------------------------------------------------------------------------
(* MultiAgentSystem *)

\* MaxMessageTermination(max_messages=...) of the research team
ResearchMaxMessages == 20

\* MaxMessageTermination(max_messages=...) of the development team
DevelopmentMaxMessages == 25

\* The tools the usage-hint lines of the enhanced system message name
UsageHints ==
    <<"read_file", "write_file", "list_files",
      "github_search", "github_list_repos", "github_get_file">>

\* MultiAgentSystem.create_agent: the AssistantAgent it builds.  Its system
\* message names the keys of tool_functions on the "Available tools:" line
\* (available) and then the tools of the usage-hint lines (catalog).
create_agent(name, tools) ==
    [name |-> name, tools |-> tools, available |-> tools, catalog |-> UsageHints]

\* RoundRobinGroupChat(participants, termination_condition): a new team, with
\* no message in its thread.  The class is the library's: whether its objects
\* have an attribute named messages is has_messages, and the attribute of a
\* new team holds no message.
RoundRobinGroupChat(participants, max_messages) ==
    IF has_messages
    THEN [set |-> TRUE, participants |-> participants, max_messages |-> max_messages,
          thread |-> <<>>, messages |-> <<>>]
    ELSE [set |-> TRUE, participants |-> participants, max_messages |-> max_messages,
          thread |-> <<>>]

\* self.team = None
NoTeam == [set |-> FALSE, participants |-> <<>>, max_messages |-> 0, thread |-> <<>>]

\* The agents dict setup_research_team stores
ResearchAgents(tools) ==
    << [key |-> "researcher", val |-> create_agent("Researcher", tools)],
       [key |-> "analyst", val |-> create_agent("Analyst", tools)],
       [key |-> "technical", val |-> create_agent("TechnicalExpert", tools)],
       [key |-> "coordinator", val |-> create_agent("Coordinator", tools)] >>

\* setup_development_team with the tester created before the architect
DevelopmentAgentsTesterFirst(tools) ==
    << [key |-> "developer", val |-> create_agent("Developer", tools)],
       [key |-> "tester", val |-> create_agent("Tester", tools)],
       [key |-> "architect", val |-> create_agent("Architect", tools)],
       [key |-> "devops", val |-> create_agent("DevOps", tools)] >>

\* The agents dict setup_development_team stores
DevelopmentAgents(tools) ==
    << [key |-> "developer", val |-> create_agent("Developer", tools)],
       [key |-> "architect", val |-> create_agent("Architect", tools)],
       [key |-> "tester", val |-> create_agent("Tester", tools)],
       [key |-> "devops", val |-> create_agent("DevOps", tools)] >>

\* logger.info(f"Research team created with {len(self.agents)} agents") and
\* its like of the development team
TeamCreated(kind, a) ==
    LogRecord("INFO", kind \o " team created with " \o ToString(Len(a)) \o " agents")

\* logger.info(f"Starting {team_type} team conversation...")
Starting(team_type) ==
    LogRecord("INFO", "Starting " \o team_type \o " team conversation...")

\* MultiAgentSystem.setup_research_team: the agents and team it leaves, and
\* the record it logs
setup_research_team(tools) ==
    LET a == ResearchAgents(tools) IN
    [agents |-> a, team |-> RoundRobinGroupChat(Values(a), ResearchMaxMessages),
     records |-> <<TeamCreated("Research", a)>>]

\* setup_development_team with self.agents.update(...) in place of the
\* assignment: the agents of an earlier team stay in the dict
setup_development_team_update(tools) ==
    LET RECURSIVE Update(_, _)
        Update(d, new) ==
            IF new = <<>> THEN d
            ELSE Update(DictSet(d, Head(new).key, Head(new).val), Tail(new))
        a == Update(agents, DevelopmentAgents(tools))
    IN  [agents |-> a, team |-> RoundRobinGroupChat(Values(a), DevelopmentMaxMessages),
         records |-> <<TeamCreated("Development", a)>>]

\* MultiAgentSystem.setup_development_team: the agents and team it leaves
setup_development_team(tools) ==
    LET a == DevelopmentAgents(tools) IN
    [agents |-> a, team |-> RoundRobinGroupChat(Values(a), DevelopmentMaxMessages),
     records |-> <<TeamCreated("Development", a)>>]

\* The names given so far, once the agents of the dict a were created too
Created(c, a) ==
    LET names == { a[i].val.name : i \in DOMAIN a } IN
    [once |-> c.once \cup names, again |-> c.again \cup (c.once \cap names)]

NoneCreated == [once |-> {}, again |-> {}]

NoConversation ==
    [status |-> "none", team_type |-> "", team_size |-> 0, available_tools |-> <<>>]

\* start_conversation with the research team as the fallback of an unknown
\* team type, set up before the type is refused
start_conversation_fallback(team_type, a, t, tools) ==
    LET s == IF team_type = "development" THEN setup_development_team(tools)
             ELSE setup_research_team(tools)
    IN  IF team_type \notin {"research", "development"}
        THEN [agents |-> s.agents, team |-> s.team, records |-> s.records,
              conv |-> [status |-> "ValueError", team_type |-> team_type,
                        team_size |-> 0, available_tools |-> <<>>]]
        ELSE [agents |-> s.agents, team |-> s.team,
              records |-> Append(s.records, Starting(team_type)),
              conv |-> [status |-> "success", team_type |-> team_type,
                        team_size |-> Len(s.agents), available_tools |-> tools]]

\* MultiAgentSystem.start_conversation: the team it sets up and what it returns
\* or raises, and the records it logs.  It sets the team up and returns; it
\* runs no turn of the team.
start_conversation(team_type, a, t, tools) ==
    IF team_type \notin {"research", "development"}
    THEN [agents |-> a, team |-> t, records |-> <<>>,
          conv |-> [status |-> "ValueError", team_type |-> team_type,
                    team_size |-> 0, available_tools |-> <<>>]]
    ELSE LET s == IF team_type = "research" THEN setup_research_team(tools)
                  ELSE setup_development_team(tools)
         IN  [agents |-> s.agents, team |-> s.team,
              records |-> Append(s.records, Starting(team_type)),
              conv |-> [status |-> "success", team_type |-> team_type,
                        team_size |-> Len(s.agents), available_tools |-> tools]]

\* json.dump(messages, f, indent=2, default=str) of a list of strings that
\* need no escape: the characters written
RECURSIVE JsonItems(_)
JsonItems(messages) ==
    IF messages = <<>> THEN <<>>
    ELSE <<"\n", " ", " ", "\"">> \o Head(messages) \o <<"\"">>
         \o (IF Len(messages) > 1 THEN <<",">> ELSE <<"\n">>)
         \o JsonItems(Tail(messages))

JsonDump(messages) == <<"[">> \o JsonItems(messages) \o <<"]">>

\* The strings between quotes in cs, in order; cur is the string being read
RECURSIVE JsonStrings(_, _, _)
JsonStrings(cs, inStr, cur) ==
    IF cs = <<>> THEN <<>>
    ELSE IF Head(cs) = "\""
         THEN IF inStr THEN <<cur>> \o JsonStrings(Tail(cs), FALSE, <<>>)
              ELSE JsonStrings(Tail(cs), TRUE, <<>>)
    ELSE IF inStr THEN JsonStrings(Tail(cs), TRUE, Append(cur, Head(cs)))
    ELSE JsonStrings(Tail(cs), FALSE, <<>>)

\* json.load of a file that holds a list of strings; not JSON otherwise
JsonLoad(cs) ==
    IF Len(cs) >= 2 /\ Head(cs) = "[" /\ cs[Len(cs)] = "]"
    THEN [ok |-> TRUE, messages |-> JsonStrings(cs, FALSE, <<>>)]
    ELSE [ok |-> FALSE, messages |-> <<>>]

\* The class of the OSError raised for errno
ExcName(errno) ==
    CASE errno = "ENOENT" -> "FileNotFoundError"
      [] errno = "EEXIST" -> "FileExistsError"
      [] errno = "ENOTDIR" -> "NotADirectoryError"
      [] errno = "EISDIR" -> "IsADirectoryError"

\* logger.warning("No conversation history to save")
NoHistory == LogRecord("WARNING", "No conversation history to save")

\* logger.info(f"Conversation history saved to {filename}")
HistorySaved(filename) ==
    LogRecord("INFO", "Conversation history saved to " \o PathStr(filename))

\* save_conversation_history with the thread of the team written whenever a
\* team exists
save_conversation_history_thread(f, t, filename) ==
    IF t.set
    THEN LET w == OpenWrite(f, filename, WriteTranslate(JsonDump(t.thread))) IN
         IF w.err # ""
         THEN [raised |-> TRUE, exc |-> ExcName(w.err), fs |-> w.fs, records |-> <<>>]
         ELSE [raised |-> FALSE, exc |-> "", fs |-> w.fs,
               records |-> <<HistorySaved(filename)>>]
    ELSE [raised |-> FALSE, exc |-> "", fs |-> f, records |-> <<NoHistory>>]

\* MultiAgentSystem.save_conversation_history.  hasattr(self.team, 'messages')
\* is the presence of the field in the team record; nothing in the program
\* sets the attribute.  The file is opened before json.dump runs, and the
\* record is logged once the file is closed.
save_conversation_history(f, t, filename) ==
    IF t.set /\ "messages" \in DOMAIN t
    THEN LET w == OpenWrite(f, filename, WriteTranslate(JsonDump(t.messages))) IN
         IF w.err # ""
         THEN [raised |-> TRUE, exc |-> ExcName(w.err), fs |-> w.fs, records |-> <<>>]
         ELSE [raised |-> FALSE, exc |-> "", fs |-> w.fs,
               records |-> <<HistorySaved(filename)>>]
    ELSE [raised |-> FALSE, exc |-> "", fs |-> f, records |-> <<NoHistory>>]

-----------------------------------------------------------------------------
(* create_github_repo.py.  The text of a JSON file stands for the object    *)
(* json.loads makes of it: content is [isJson, text, config].               *)

TokenKey == "GITHUB_PERSONAL_ACCESS_TOKEN"

Placeholder == "your_github_token_here"

\* The text queued as .env.template
EnvTemplate ==
    "# Groq API Configuration\nGROQ_API_KEY=your_actual_groq_api_key\n\n"
    \o "# AutoGen Studio Configuration\nAUTOGEN_STUDIO_PORT=8081\n"
    \o "AUTOGEN_STUDIO_HOST=localhost\n\n"
    \o "# MCP Configuration\nMCP_ENABLED=true\n"
    \o "MCP_SERVERS_CONFIG_PATH=./mcp_servers.json\n\n"
    \o "# Logging Configuration\nLOG_LEVEL=INFO\nLOG_FILE=autogen_studio.log"

TextContent(text) == [isJson |-> FALSE, text |-> text, config |-> <<>>]

\* json.dumps(config, indent=2) of the object with the servers dict srv
JsonContent(srv) == [isJson |-> TRUE, text |-> "", config |-> srv]

NoEnv == [k \in {} |-> ""]

\* get_github_token: GITHUB_PERSONAL_ACCESS_TOKEN of the github server's env,
\* None when the file or any of the members is missing.  Nothing is caught:
\* open() and json.load raise as in load_config, and .get raises
\* AttributeError on a JSON value that is no object and on a null "servers",
\* "github" or "env" member.
get_github_token(file) ==
    LET failed(exc) == [err |-> exc, found |-> FALSE, value |-> ""] IN
    IF ~file.exists THEN [err |-> "", found |-> FALSE, value |-> ""]
    ELSE IF file.shape = "directory" THEN failed("IsADirectoryError")
    ELSE IF file.shape = "bytes" THEN failed("UnicodeDecodeError")
    ELSE IF file.shape = "text" THEN failed("JSONDecodeError")
    ELSE IF file.shape = "value" THEN failed("AttributeError")
    ELSE IF file.hasServers /\ file.serversNull THEN failed("AttributeError")
    ELSE LET srv == IF file.hasServers THEN DictFromPairs(file.pairs) ELSE <<>>
             hit == { i \in DOMAIN srv : srv[i].key = "github" }
             github == IF hit = {} THEN [k \in {} |-> ""]
                       ELSE srv[CHOOSE i \in hit : TRUE].val
             env == Get(github, "env", NoEnv)
         IN  IF github = Null \/ env = Null THEN failed("AttributeError")
             ELSE IF TokenKey \in DOMAIN env
             THEN [err |-> "", found |-> TRUE, value |-> env[TokenKey]]
             ELSE [err |-> "", found |-> FALSE, value |-> ""]

\* create_repository for the answer of POST /user/repos: the repository object
\* or None.  Nothing is caught: requests.post raises ConnectionError,
\* response.json() raises JSONDecodeError on a body that is not JSON, and a 201
\* body without the name that is printed raises KeyError.
create_repository(answer) ==
    IF answer.raises THEN [err |-> "ConnectionError", repo |-> FALSE]
    ELSE IF answer.status = 201
         THEN IF answer.body = "html" THEN [err |-> "JSONDecodeError", repo |-> FALSE]
              ELSE IF answer.body = "message" THEN [err |-> "KeyError", repo |-> FALSE]
              ELSE [err |-> "", repo |-> TRUE]
    ELSE IF answer.body = "html" THEN [err |-> "JSONDecodeError", repo |-> FALSE]
    ELSE [err |-> "", repo |-> FALSE]

\* upload_file_to_repo for the answer of the PUT: True, False or the exception
upload_file_to_repo(answer) ==
    IF answer.raises THEN [err |-> "ConnectionError", ok |-> FALSE]
    ELSE IF answer.status = 201 THEN [err |-> "", ok |-> TRUE]
    ELSE IF answer.status # 422 /\ answer.body = "html"
         THEN [err |-> "JSONDecodeError", ok |-> FALSE]
    ELSE [err |-> "", ok |-> FALSE]

\* upload_multiple_files on files_data, the i-th PUT answered by answers[i]:
\* the PUTs made, the files uploaded, and the exception that ended the loop
RECURSIVE upload_multiple_files(_, _)
upload_multiple_files(files_data, answers) ==
    IF files_data = <<>> THEN [err |-> "", puts |-> 0, success_count |-> 0]
    ELSE LET first == upload_file_to_repo(Head(answers)) IN
         IF first.err # "" THEN [err |-> first.err, puts |-> 1, success_count |-> 0]
         ELSE LET rest == upload_multiple_files(Tail(files_data), Tail(answers)) IN
              [err |-> rest.err, puts |-> 1 + rest.puts,
               success_count |-> (IF first.ok THEN 1 ELSE 0) + rest.success_count]

\* main's rewriting of mcp_servers.json with the servers kept as they are
RedactNothing(srv) == [err |-> "", servers |-> srv]

\* main's rewriting of the servers dict srv of mcp_servers.json, line 186:
\* config['servers']['github']['env'][...] = placeholder.  Subscripting a null
\* github entry, or assigning into a null env, raises TypeError; a github
\* entry with no env raises KeyError.
Redact(srv) ==
    IF ~HasKey(srv, "github") THEN [err |-> "", servers |-> srv]
    ELSE LET g == CHOOSE i \in DOMAIN srv : srv[i].key = "github"
             github == srv[g].val
         IN  IF github = Null THEN [err |-> "TypeError", servers |-> srv]
             ELSE IF "env" \notin DOMAIN github THEN [err |-> "KeyError", servers |-> srv]
             ELSE IF github.env = Null THEN [err |-> "TypeError", servers |-> srv]
             ELSE [err |-> "",
                   servers |->
                     [i \in DOMAIN srv |->
                        IF srv[i].key # "github" THEN srv[i]
                        ELSE [key |-> "github",
                              val |-> [github EXCEPT !.env =
                                         [k \in DOMAIN github.env \cup {TokenKey} |->
                                            IF k = TokenKey THEN Placeholder
                                            ELSE github.env[k]]]]]]

core_files ==
    <<"multi_agent_system.py", "start_system.py", "main.py", "README.md",
      "pyproject.toml", "mcp_servers.json", ".env">>

demo_files ==
    <<"test_mcp.py", "demo_mcp_working.py", "comprehensive_mcp_test.py",
      "simple_agent_demo.py", "create_github_repo.py", "MCP_TEST_SUMMARY.md">>

all_files == core_files \o demo_files

AbsentLocal == [exists |-> FALSE, readable |-> FALSE, content |-> TextContent("")]

\* The local file of this name: mcp_servers.json is the configuration file,
\* which read_local_file reads unless it is a directory or not UTF-8
LocalFile(loc, file_name) ==
    IF file_name = "mcp_servers.json"
    THEN [exists |-> loc.config.exists,
          readable |-> loc.config.exists
                       /\ loc.config.shape \notin {"directory", "bytes"},
          content |-> TextContent("")]
    ELSE IF file_name \in DOMAIN loc.files THEN loc.files[file_name]
    ELSE AbsentLocal

\* Lines 183-187 of main on the text of the configuration file: json.loads
\* raises JSONDecodeError on text that is not JSON; the list [] and an object
\* without "servers" are dumped as they are; 'github' in None raises
\* TypeError for a null "servers"; otherwise the servers are redacted.
RedactFile(file) ==
    IF file.shape = "text" THEN [err |-> "JSONDecodeError", content |-> TextContent("")]
    ELSE IF file.shape = "value" THEN [err |-> "", content |-> TextContent("[]")]
    ELSE IF ~file.hasServers THEN [err |-> "", content |-> TextContent("{}")]
    ELSE IF file.serversNull THEN [err |-> "TypeError", content |-> TextContent("")]
    ELSE LET red == Redact(DictFromPairs(file.pairs)) IN
         [err |-> red.err, content |-> JsonContent(red.servers)]

\* One turn of main's loop over all_files: what it appends to files_to_upload,
\* nothing when the file is missing or unreadable or the turn raises
QueueItem(loc, file_name) ==
    LET f == LocalFile(loc, file_name) IN
    IF ~f.exists \/ ~f.readable THEN [err |-> "", items |-> <<>>]
    ELSE LET name1 == IF file_name = ".env" THEN ".env.template" ELSE file_name
             red == IF name1 = "mcp_servers.json" THEN RedactFile(loc.config)
                    ELSE IF file_name = ".env"
                    THEN [err |-> "", content |-> TextContent(EnvTemplate)]
                    ELSE [err |-> "", content |-> f.content]
         IN  IF red.err # "" THEN [err |-> red.err, items |-> <<>>]
             ELSE [err |-> "",
                   items |-> <<[path |-> name1, content |-> red.content,
                                message |-> "Add " \o name1]>>]

\* main's loop over the sequence names of file names
RECURSIVE QueueFiles(_, _)
QueueFiles(loc, names) ==
    IF names = <<>> THEN [err |-> "", items |-> <<>>]
    ELSE LET first == QueueItem(loc, Head(names)) IN
         IF first.err # "" THEN [err |-> first.err, items |-> <<>>]
         ELSE LET rest == QueueFiles(loc, Tail(names)) IN
              [err |-> rest.err, items |-> first.items \o rest.items]

\* main's loop over workspace/**/*, in the order ws that glob gives
WorkspaceItems(ws) ==
    [i \in DOMAIN ws |->
       [path |-> ws[i].path, content |-> TextContent(ws[i].text),
        message |-> "Add workspace file " \o ws[i].path]]

-----------------------------------------------------------------------------
(* Arguments of the tool calls *)

StrArg(s, abs, parts) == [str |-> s, isStr |-> TRUE, abs |-> abs, parts |-> parts]

\* None passed where a path string is expected
NoneArg == [str |-> "None", isStr |-> FALSE, abs |-> FALSE, parts |-> <<>>]

\* Path arguments that resolve inside the workspace
InsideArgs ==
    { StrArg("a.txt", FALSE, <<"a.txt">>),
      StrArg("sub/a.txt", FALSE, <<"sub", "a.txt">>),
      StrArg("sub", FALSE, <<"sub">>),
      StrArg(".", FALSE, <<>>) }

\* Path arguments that resolve outside the workspace
OutsideArgs ==
    { StrArg("..", FALSE, <<"..">>),
      StrArg("../mcp_servers.json", FALSE, <<"..", "mcp_servers.json">>),
      StrArg("/tmp/out.txt", TRUE, <<"tmp", "out.txt">>) }

PathArgs == InsideArgs \cup OutsideArgs \cup {NoneArg}

Text(chars) == [isStr |-> TRUE, chars |-> chars]

\* None passed where the content string is expected
NoneContent == [isStr |-> FALSE, chars |-> <<>>]

ContentArgs ==
    { Text(<<>>), Text(<<"h", "i">>), Text(<<"a", "\r", "b">>), NoneContent }

\* The workspace directory, /app/workspace
Workspace == Append(Cwd, "workspace")

\* node is the workspace root or lies below it
InWorkspace(node) ==
    Len(node) >= Len(Workspace) /\ SubSeq(node, 1, Len(Workspace)) = Workspace

\* The directories every run starts with
BaseFs == [n \in {Root, Cwd, <<"tmp">>} |-> Dir]

\* The trees the program starts on, before the configuration file and the log
\* file are added: with and without the workspace directory
InitFs == { BaseFs, Put(BaseFs, Workspace, Dir) }

\* The node a path names once its ".." components are resolved
RECURSIVE Normal(_, _)
Normal(node, parts) ==
    IF parts = <<>> THEN node
    ELSE IF Head(parts) = ".."
         THEN Normal(IF node = Root THEN Root ELSE Front(node), Tail(parts))
    ELSE Normal(Append(node, Head(parts)), Tail(parts))

\* No write has succeeded yet
NoneWritten == [a \in {} |-> <<>>]

\* The record of writes once write_file(a, c) returned value: a successful
\* write is recorded for a, in place of any write to the same file.
Written(w, a, c, value) ==
    IF value = "File written successfully: " \o a.str
    THEN LET old == { q \in DOMAIN w :
                       Normal(Start(WorkspacePath(q)), WorkspacePath(q).parts)
                       # Normal(Start(WorkspacePath(a)), WorkspacePath(a).parts) }
         IN  [q \in old \cup {a} |-> IF q = a THEN c.chars ELSE w[q]]
    ELSE w

\* Arguments of the remote-repository tools: strings and None
RemoteArgs == { Text(<<>>), Text(<<"m", "c", "p">>), NoneContent }

\* The default of github_get_file's branch parameter, and another branch
BranchArgs == { Text(<<"m", "a", "i", "n">>), Text(<<"d", "e", "v">>) }

NoCall ==
    [op |-> "none", arg |-> NoneArg, content |-> NoneContent, args |-> <<>>,
     raised |-> FALSE, value |-> ""]

-----------------------------------------------------------------------------
(* Configuration files *)

\* Bound on the number of members of the "servers" object of a configuration
MaxServers == 2

ServerNames == {"fs", "github", "brave-search"}

\* A server entry with every field, and one with no description
ServerConfigs ==
    { [command |-> "npx", args |-> <<"-y", "server">>, description |-> "MCP server"],
      [command |-> "npx", args |-> <<"-y", "server">>] }

\* mcp_servers.json: shape is what the path holds ("directory", "bytes" that
\* are not UTF-8, "text" that is not JSON, a JSON "value" that is no object, or
\* a JSON "object"); malformed tells that it is not an object whose "servers"
\* member, if any, is an object of server entries.
JsonFile(pairs) ==
    [exists |-> TRUE, shape |-> "object", malformed |-> FALSE, hasServers |-> TRUE,
     serversNull |-> FALSE, pairs |-> pairs]

\* No mcp_servers.json in the working directory
AbsentFile ==
    [exists |-> FALSE, shape |-> "none", malformed |-> FALSE, hasServers |-> FALSE,
     serversNull |-> FALSE, pairs |-> <<>>]

\* A file whose text is not JSON, such as "{"
MalformedFile ==
    [exists |-> TRUE, shape |-> "text", malformed |-> TRUE, hasServers |-> FALSE,
     serversNull |-> FALSE, pairs |-> <<>>]

\* A file whose bytes are not UTF-8, such as ff fe 00
UndecodableFile == [MalformedFile EXCEPT !.shape = "bytes"]

\* A directory named mcp_servers.json
DirectoryFile == [MalformedFile EXCEPT !.shape = "directory"]

\* A JSON value that is not an object: the list []
NonObjectFile == [MalformedFile EXCEPT !.shape = "value"]

\* The object {"servers": null}
ServersNullFile ==
    [exists |-> TRUE, shape |-> "object", malformed |-> TRUE, hasServers |-> TRUE,
     serversNull |-> TRUE, pairs |-> <<>>]

\* A JSON object with no "servers" member
EmptyObjectFile ==
    [exists |-> TRUE, shape |-> "object", malformed |-> FALSE, hasServers |-> FALSE,
     serversNull |-> FALSE, pairs |-> <<>>]

\* The files that make load_config raise
FaultyFiles ==
    {MalformedFile, UndecodableFile, DirectoryFile, NonObjectFile, ServersNullFile}

\* The members a "servers" object is made of: the file-system server with and
\* without a description, the other servers with every field
ServerEntries ==
    { <<"fs", cfg>> : cfg \in ServerConfigs }
    \cup { <<name, [command |-> "npx", args |-> <<"-y", "server">>,
                    description |-> "MCP server"]>> : name \in ServerNames }

\* The member lists of up to MaxServers members, no member written twice; two
\* members may carry the same name
MemberLists ==
    UNION { { p \in [1..n -> ServerEntries] : \A i, j \in 1..n : p[i] = p[j] => i = j } :
            n \in 0..MaxServers }

\* The object {"servers": {"github": null}}
NullEntryFile == JsonFile(<< <<"github", Null>> >>)

ConfigFiles ==
    {AbsentFile, EmptyObjectFile, NullEntryFile} \cup FaultyFiles
    \cup { JsonFile(pairs) : pairs \in MemberLists }

\* The members of the file's "servers" object are server configurations with
\* distinct names
WellFormed(file) ==
    /\ file.exists /\ ~file.malformed /\ file.hasServers
    /\ \A i \in DOMAIN file.pairs : file.pairs[i][2] # Null
    /\ \A i, j \in DOMAIN file.pairs : file.pairs[i][1] = file.pairs[j][1] => i = j

\* A configuration with the file-system and the GitHub server
FsGithubFile ==
    JsonFile(<< <<"fs", [command |-> "npx", args |-> <<"-y", "server">>,
                         description |-> "MCP server"]>>,
                <<"github", [command |-> "npx", args |-> <<"-y", "server">>,
                             description |-> "MCP server"]>> >>)

\* The characters of the strings the configurations are made of
Chars(str) ==
    CASE str = "servers" -> <<"s", "e", "r", "v", "e", "r", "s">>
      [] str = "fs" -> <<"f", "s">>
      [] str = "github" -> <<"g", "i", "t", "h", "u", "b">>
      [] str = "brave-search" ->
           <<"b", "r", "a", "v", "e", "-", "s", "e", "a", "r", "c", "h">>
      [] str = "command" -> <<"c", "o", "m", "m", "a", "n", "d">>
      [] str = "args" -> <<"a", "r", "g", "s">>
      [] str = "description" ->
           <<"d", "e", "s", "c", "r", "i", "p", "t", "i", "o", "n">>
      [] str = "npx" -> <<"n", "p", "x">>
      [] str = "-y" -> <<"-", "y">>
      [] str = "server" -> <<"s", "e", "r", "v", "e", "r">>
      [] str = "MCP server" -> <<"M", "C", "P", " ", "s", "e", "r", "v", "e", "r">>

\* The sequences of parts with sep between them
RECURSIVE JoinSeq(_, _)
JoinSeq(parts, sep) ==
    IF parts = <<>> THEN <<>>
    ELSE IF Len(parts) = 1 THEN parts[1]
    ELSE parts[1] \o sep \o JoinSeq(Tail(parts), sep)

JsonString(str) == <<"\"">> \o Chars(str) \o <<"\"">>

\* The JSON text of a server entry, its members in the order command, args,
\* description; null for a null entry
EntryText(cfg) ==
    LET member(k) ==
          IF k \notin DOMAIN cfg THEN <<>>
          ELSE << JsonString(k) \o <<":", " ">>
                  \o (IF k = "args"
                      THEN <<"[">>
                           \o JoinSeq([i \in DOMAIN cfg[k] |-> JsonString(cfg[k][i])],
                                      <<",", " ">>)
                           \o <<"]">>
                      ELSE JsonString(cfg[k])) >>
    IN  IF cfg = Null THEN <<"n", "u", "l", "l">>
        ELSE <<"{">>
             \o JoinSeq(member("command") \o member("args") \o member("description"),
                        <<",", " ">>)
             \o <<"}">>

\* A text of mcp_servers.json that json.load reads as the file: the members of
\* "servers" in the order of pairs, repeated names included
ConfigText(file) ==
    IF file.shape = "bytes" THEN <<"0xff", "0xfe", "0x00">>
    ELSE IF file.shape = "text" THEN <<"{">>
    ELSE IF file.shape = "value" THEN <<"[", "]">>
    ELSE IF ~file.hasServers THEN <<"{", "}">>
    ELSE <<"{">> \o JsonString("servers") \o <<":", " ">>
         \o (IF file.serversNull THEN <<"n", "u", "l", "l">>
             ELSE <<"{">>
                  \o JoinSeq([i \in DOMAIN file.pairs |->
                                JsonString(file.pairs[i][1]) \o <<":", " ">>
                                \o EntryText(file.pairs[i][2])],
                             <<",", " ">>)
                  \o <<"}">>)
         \o <<"}">>

\* Path("mcp_servers.json") in the working directory
ConfigPath == Append(Cwd, "mcp_servers.json")

\* The file system f with the configuration file in the working directory
WithConfig(f, file) ==
    IF ~file.exists THEN f
    ELSE IF file.shape = "directory" THEN Put(f, ConfigPath, Dir)
    ELSE Put(f, ConfigPath, File(ConfigText(file)))

\* The texts of the configuration files that are regular files
ConfigTexts ==
    [c \in { c \in ConfigFiles : c.exists /\ c.shape # "directory" } |-> ConfigText(c)]

\* What self.config_path.exists(), open() and json.load find in the tree f: the
\* file whose text the path holds.  A text that is none of ConfigTexts is, of
\* the texts the tools can write there, not JSON.
ConfigOnDisk(f) ==
    IF ConfigPath \notin DOMAIN f THEN AbsentFile
    ELSE IF f[ConfigPath].type = "dir" THEN DirectoryFile
    ELSE LET hits == { c \in DOMAIN ConfigTexts : ConfigTexts[c] = f[ConfigPath].data } IN
         IF hits # {} THEN CHOOSE c \in hits : TRUE ELSE MalformedFile

\* logger.info("Multi-agent system initialized")
Initialized == LogRecord("INFO", "Multi-agent system initialized")

\* The tree f once the module is imported and MultiAgentSystem() has returned
\* with the configuration file given: the log file holds the record of
\* load_config and the record of the constructor
Constructed(f, file, lf, lv) ==
    Logged(WithLog(WithConfig(f, file), lf), lf, lv,
           Append(load_config(file).records, Initialized))

\* Destinations of save_conversation_history: the name main() uses for the
\* research team, a directory, and a file in a directory that does not exist
ResearchHistory == [abs |-> FALSE, parts |-> <<"research_conversation.json">>]

SaveArgs ==
    { ResearchHistory,
      [abs |-> TRUE, parts |-> <<"tmp">>],
      [abs |-> FALSE, parts |-> <<"logs", "history.json">>] }

NotSaved ==
    [called |-> FALSE, filename |-> ResearchHistory, history |-> FALSE, log |-> <<>>,
     raised |-> FALSE, exc |-> ""]

\* A history file left by an earlier run of the program
OldHistory == <<"[", "\n", " ", " ", "\"", "h", "i", "\"", "\n", "]">>

\* Local files of the repository-creation script: tokens and secrets
Tokens == {"ghp_AAAA", "ghp_BBBB"}

EnvSecrets == {"GROQ_API_KEY=gsk_1", "GROQ_API_KEY=gsk_2"}

GithubEntry(token) ==
    [command |-> "npx", args |-> <<"-y", "server">>, env |-> (TokenKey :> token)]

BraveEntry ==
    [command |-> "npx", args |-> <<"-y", "server">>, env |-> ("BRAVE_API_KEY" :> "bsa_1")]

\* mcp_servers.json of the script: absent, one of the files that cannot be
\* loaded, without a github server, with a github server that is null, has no
\* env, a null env or an empty token, and with a token (a string)
UploadConfigs ==
    { AbsentFile, EmptyObjectFile,
      JsonFile(<< <<"github", Null>> >>),
      JsonFile(<< <<"github", [command |-> "npx", args |-> <<"-y", "server">>,
                               env |-> Null]>> >>),
      JsonFile(<< <<"brave-search", BraveEntry>> >>),
      JsonFile(<< <<"github", [command |-> "npx", args |-> <<"-y", "server">>]>> >>),
      JsonFile(<< <<"github", GithubEntry("")>> >>) }
    \cup FaultyFiles
    \cup { JsonFile(<< <<"github", GithubEntry(t)>> >>) : t \in Tokens }
    \cup { JsonFile(<< <<"brave-search", BraveEntry>>, <<"github", GithubEntry(t)>> >>) :
             t \in Tokens }
    \cup { JsonFile(<< <<"github", GithubEntry(t)>>,
                       <<"github", [command |-> "npx", args |-> <<"-y", "server">>]>> >>) :
             t \in Tokens }

\* .env of the script: absent, unreadable as UTF-8, or holding a secret
EnvFiles ==
    { AbsentLocal,
      [exists |-> TRUE, readable |-> FALSE, content |-> TextContent("")] }
    \cup { [exists |-> TRUE, readable |-> TRUE, content |-> TextContent(s)] :
             s \in EnvSecrets }

SourceFile == [exists |-> TRUE, readable |-> TRUE, content |-> TextContent("import os")]

\* The regular files below workspace/
WorkspaceFiles ==
    { {}, {[path |-> "workspace/notes.txt", text |-> "hi"]},
      {[path |-> "workspace/notes.txt", text |-> "hi"],
       [path |-> "workspace/sub/a.txt", text |-> ""]} }

NoLocalFiles ==
    [config |-> AbsentFile, files |-> [n \in {} |-> AbsentLocal], workspace |-> {}]

\* Answers of the GitHub API to a request: the request raises, or it is
\* answered with a status and a body that is an HTML page, an object with a
\* message, the repository object, or the repository object without its owner
Answer(status, body) == [raises |-> FALSE, status |-> status, body |-> body]

NoAnswer == [raises |-> TRUE, status |-> 0, body |-> ""]

PostAnswers ==
    { NoAnswer }
    \cup { Answer(201, b) : b \in {"repository", "no owner", "message", "html"} }
    \cup { Answer(s, b) : s \in {422, 502}, b \in {"message", "html"} }

PutAnswers ==
    { NoAnswer, Answer(201, "message"), Answer(422, "html"),
      Answer(404, "message"), Answer(502, "html") }

NotStarted == [pc |-> "start", token |-> "", queue |-> <<>>, puts |-> 0, uploaded |-> 0]

NotListed == [called |-> FALSE, err |-> "", tools |-> <<>>]

NotBuilt == [called |-> FALSE, tools |-> <<>>]

-----------------------------------------------------------------------------
(* The file tools called on the workspace *)

InitTools ==
    /\ configFile = FsGithubFile
    /\ \E ls \in LogSettingsInfo : log_file = ls[1] /\ log_level = ls[2]
    /\ has_messages = FALSE
    /\ fs \in { Constructed(f, configFile, log_file, log_level) : f \in InitFs }
    /\ fsBefore = fs
    /\ ret = NoCall
    /\ calls = 0
    /\ written = NoneWritten
    /\ groq_api_key = TRUE
    /\ pc = "ready"
    /\ servers = load_config(configFile).servers
    /\ tool_functions = create_tool_functions(servers)
    /\ listed = NotListed
    /\ built = NotBuilt
    /\ agents = <<>>
    /\ team = NoTeam
    /\ conv = NoConversation
    /\ created = NoneCreated
    /\ saved = NotSaved
    /\ local = NoLocalFiles
    /\ upload = NotStarted

ReadFile ==
    /\ calls < MaxCalls
    /\ "read_file" \in Range(tool_functions)
    /\ \E a \in PathArgs :
         LET r == read_file(fs, a) IN
         /\ fs' = r.fs
         /\ ret' = [op |-> "read_file", arg |-> a, content |-> NoneContent, args |-> <<>>,
                    raised |-> r.raised, value |-> r.value]
    /\ fsBefore' = fs
    /\ calls' = calls + 1
    /\ UNCHANGED written
    /\ UNCHANGED sysVars

WriteFile ==
    /\ calls < MaxCalls
    /\ "write_file" \in Range(tool_functions)
    /\ \E a \in PathArgs, c \in ContentArgs :
         LET r == write_file(fs, a, c) IN
         /\ fs' = r.fs
         /\ ret' = [op |-> "write_file", arg |-> a, content |-> c, args |-> <<>>,
                    raised |-> r.raised, value |-> r.value]
         /\ written' = Written(written, a, c, r.value)
    /\ fsBefore' = fs
    /\ calls' = calls + 1
    /\ UNCHANGED sysVars

ListFiles ==
    /\ calls < MaxCalls
    /\ "list_files" \in Range(tool_functions)
    /\ \E a \in PathArgs :
         \E order \in Perms(Listed(fs, a)) :
           LET r == list_files(fs, a, order) IN
           /\ fs' = r.fs
           /\ ret' = [op |-> "list_files", arg |-> a, content |-> NoneContent,
                      args |-> <<>>, raised |-> r.raised, value |-> r.value]
    /\ fsBefore' = fs
    /\ calls' = calls + 1
    /\ UNCHANGED written
    /\ UNCHANGED sysVars

GithubSearch ==
    /\ calls < MaxCalls
    /\ "github_search" \in Range(tool_functions)
    /\ \E q \in RemoteArgs :
         LET r == github_search(fs, q) IN
         /\ fs' = r.fs
         /\ ret' = [op |-> "github_search", arg |-> NoneArg, content |-> NoneContent,
                    args |-> <<q>>, raised |-> r.raised, value |-> r.value]
    /\ fsBefore' = fs
    /\ calls' = calls + 1
    /\ UNCHANGED written
    /\ UNCHANGED sysVars

GithubListRepos ==
    /\ calls < MaxCalls
    /\ "github_list_repos" \in Range(tool_functions)
    /\ \E u \in RemoteArgs :
         LET r == github_list_repos(fs, u) IN
         /\ fs' = r.fs
         /\ ret' = [op |-> "github_list_repos", arg |-> NoneArg,
                    content |-> NoneContent,
                    args |-> <<u>>, raised |-> r.raised, value |-> r.value]
    /\ fsBefore' = fs
    /\ calls' = calls + 1
    /\ UNCHANGED written
    /\ UNCHANGED sysVars

GithubGetFile ==
    /\ calls < MaxCalls
    /\ "github_get_file" \in Range(tool_functions)
    /\ \E repo \in RemoteArgs, p \in RemoteArgs, b \in BranchArgs :
         LET r == github_get_file(fs, repo, p, b) IN
         /\ fs' = r.fs
         /\ ret' = [op |-> "github_get_file", arg |-> NoneArg,
                    content |-> NoneContent,
                    args |-> <<repo, p, b>>, raised |-> r.raised, value |-> r.value]
    /\ fsBefore' = fs
    /\ calls' = calls + 1
    /\ UNCHANGED written
    /\ UNCHANGED sysVars

NextTools ==
    \/ ReadFile
    \/ WriteFile
    \/ ListFiles
    \/ GithubSearch
    \/ GithubListRepos
    \/ GithubGetFile

SpecTools == InitTools /\ [][NextTools]_vars

-----------------------------------------------------------------------------
(* The system: construction, tool listing, team setup and conversations *)

TeamTypes == {"research", "development", "custom"}

\* Names of the agents a caller creates with create_agent
AgentNames == {"Helper"}

InitSystem ==
    /\ configFile \in ConfigFiles
    /\ groq_api_key \in BOOLEAN
    /\ pc = "new"
    /\ servers = <<>>
    /\ tool_functions = <<>>
    /\ listed = NotListed
    /\ built = NotBuilt
    /\ agents = <<>>
    /\ team = NoTeam
    /\ conv = NoConversation
    /\ created = NoneCreated
    /\ saved = NotSaved
    /\ local = NoLocalFiles
    /\ upload = NotStarted
    /\ \E ls \in LogSettingsInfo : log_file = ls[1] /\ log_level = ls[2]
    /\ has_messages \in BOOLEAN
    /\ fs = WithLog(WithConfig(BaseFs, configFile), log_file)
    /\ fsBefore = fs
    /\ ret = NoCall
    /\ calls = 0
    /\ written = NoneWritten

\* MultiAgentSystem(): GroqModelClient raises ValueError without an API key;
\* then MCPIntegration() loads the configuration and logs what it loaded, the
\* tool functions are made, and the constructor logs that it is done.
Construct ==
    /\ pc = "new"
    /\ IF ~groq_api_key
       THEN /\ pc' = "failed: ValueError"
            /\ UNCHANGED <<servers, tool_functions, fs, fsBefore>>
       ELSE LET l == load_config(ConfigOnDisk(fs)) IN
            IF l.err # ""
            THEN /\ pc' = "failed: " \o l.err
                 /\ UNCHANGED <<servers, tool_functions, fs, fsBefore>>
            ELSE /\ pc' = "ready"
                 /\ servers' = l.servers
                 /\ tool_functions' = create_tool_functions(l.servers)
                 /\ fs' = Logged(BuildEffect(Logged(fs, log_file, log_level,
                                                    l.records),
                                             l.servers),
                                 log_file, log_level, <<Initialized>>)
                 /\ fsBefore' = fs
    /\ UNCHANGED <<configFile, groq_api_key, log_file, log_level, has_messages, listed, built, agents, team, conv,
                   created>>
    /\ UNCHANGED <<ret, calls, written, saved, local, upload>>

\* mcp_integration.create_tool_functions() called again on the loaded configuration
CreateToolFunctions ==
    /\ pc = "ready"
    /\ built' = [called |-> TRUE, tools |-> create_tool_functions(servers)]
    /\ fs' = BuildEffect(fs, servers)
    /\ fsBefore' = fs
    /\ UNCHANGED <<configFile, groq_api_key, log_file, log_level, has_messages, pc, servers, tool_functions, listed,
                   agents, team, conv, created>>
    /\ UNCHANGED <<ret, calls, written, saved, local, upload>>

\* mcp_integration.load_config() called again: the file on disk is read again,
\* whatever it holds by now. The call returns None, so a load that completes
\* leaves no outcome but servers and the log; the exception of one that does not
\* reaches the caller
LoadConfig ==
    /\ pc = "ready"
    /\ LET l == load_config(ConfigOnDisk(fs)) IN
       /\ LogRoom(fs, log_file, Len(Emitted(log_level, l.records)))
       /\ servers' = IF l.set THEN l.servers ELSE servers
       /\ fs' = Logged(fs, log_file, log_level, l.records)
       /\ ret' = IF l.err = "" THEN NoCall
                 ELSE [NoCall EXCEPT !.op = "load_config", !.raised = TRUE, !.value = l.err]
    /\ UNCHANGED <<configFile, groq_api_key, log_file, log_level, has_messages, pc, tool_functions, listed,
                   built, agents, team, conv, created>>
    /\ UNCHANGED <<fsBefore, calls, written, saved, local, upload>>

GetAvailableTools ==
    /\ pc = "ready"
    /\ LET g == get_available_tools(servers) IN
       listed' = [called |-> TRUE, err |-> g.err, tools |-> g.tools]
    /\ UNCHANGED <<configFile, groq_api_key, log_file, log_level, has_messages, pc, servers, tool_functions, built,
                   agents, team, conv, created>>
    /\ UNCHANGED <<fsVars, saved, local, upload>>

\* The public method create_agent called with a configuration of the caller:
\* the agent is returned and stored nowhere
CreateAgent ==
    /\ pc = "ready"
    /\ \E name \in AgentNames :
         created' = Created(created,
                            <<[key |-> "", val |-> create_agent(name, tool_functions)]>>)
    /\ UNCHANGED <<configFile, groq_api_key, log_file, log_level, has_messages, pc, servers, tool_functions, listed,
                   built, agents, team, conv>>
    /\ UNCHANGED <<fsVars, saved, local, upload>>

SetupResearchTeam ==
    /\ pc = "ready"
    /\ LET s == setup_research_team(tool_functions) IN
       /\ LogRoom(fs, log_file, Len(Emitted(log_level, s.records)))
       /\ agents' = s.agents
       /\ team' = s.team
       /\ created' = Created(created, s.agents)
       /\ fs' = Logged(fs, log_file, log_level, s.records)
    /\ UNCHANGED <<configFile, groq_api_key, log_file, log_level, has_messages, pc, servers, tool_functions,
                   listed, built, conv>>
    /\ UNCHANGED <<fsBefore, ret, calls, written, saved, local, upload>>

SetupDevelopmentTeam ==
    /\ pc = "ready"
    /\ LET s == setup_development_team(tool_functions) IN
       /\ LogRoom(fs, log_file, Len(Emitted(log_level, s.records)))
       /\ agents' = s.agents
       /\ team' = s.team
       /\ created' = Created(created, s.agents)
       /\ fs' = Logged(fs, log_file, log_level, s.records)
    /\ UNCHANGED <<configFile, groq_api_key, log_file, log_level, has_messages, pc, servers, tool_functions,
                   listed, built, conv>>
    /\ UNCHANGED <<fsBefore, ret, calls, written, saved, local, upload>>

StartConversation ==
    /\ pc = "ready"
    /\ \E team_type \in TeamTypes :
         LET r == start_conversation(team_type, agents, team, tool_functions) IN
         /\ LogRoom(fs, log_file, Len(Emitted(log_level, r.records)))
         /\ fs' = Logged(fs, log_file, log_level, r.records)
         /\ agents' = r.agents
         /\ team' = r.team
         /\ conv' = r.conv
         /\ created' = IF r.conv.status = "success"
                       THEN Created(created, r.agents)
                       ELSE created
    /\ UNCHANGED <<configFile, groq_api_key, log_file, log_level, has_messages, pc, servers, tool_functions,
                   listed, built>>
    /\ UNCHANGED <<fsBefore, ret, calls, written, saved, local, upload>>

NextSystem ==
    \/ Construct
    \/ LoadConfig
    \/ CreateToolFunctions
    \/ GetAvailableTools
    \/ CreateAgent
    \/ SetupResearchTeam
    \/ SetupDevelopmentTeam
    \/ StartConversation

SpecSystem == InitSystem /\ [][NextSystem]_vars

-----------------------------------------------------------------------------
(* The configuration read again after the file tools wrote to it *)

\* The calls of a constructed system that write the configuration file
\* (write_file with a path that leaves the workspace) and that read it again
NextReload ==
    \/ WriteFile
    \/ LoadConfig
    \/ GetAvailableTools
    \/ CreateToolFunctions

SpecReload == InitTools /\ [][NextReload]_vars

-----------------------------------------------------------------------------
(* Conversations and the saving of their history *)

InitSave ==
    /\ configFile \in {AbsentFile, FsGithubFile}
    /\ groq_api_key = TRUE
    /\ pc = "ready"
    /\ servers = load_config(configFile).servers
    /\ tool_functions = create_tool_functions(servers)
    /\ listed = NotListed
    /\ built = NotBuilt
    /\ agents = <<>>
    /\ team = NoTeam
    /\ conv = NoConversation
    /\ created = NoneCreated
    /\ saved = NotSaved
    /\ local = NoLocalFiles
    /\ upload = NotStarted
    /\ \E ls \in LogSettings : log_file = ls[1] /\ log_level = ls[2]
    /\ has_messages \in BOOLEAN
    /\ fs \in { Constructed(f, configFile, log_file, log_level) :
                   f \in {BaseFs, Put(BaseFs, Append(Cwd, "research_conversation.json"),
                                      File(OldHistory))} }
    /\ fsBefore = fs
    /\ ret = NoCall
    /\ calls = 0
    /\ written = NoneWritten

SaveConversationHistory ==
    /\ pc = "ready"
    /\ \E filename \in SaveArgs :
         LET r == save_conversation_history(fs, team, filename) IN
         /\ LogRoom(fs, log_file, 0)
         /\ fs' = Logged(r.fs, log_file, log_level, r.records)
         /\ saved' = [called |-> TRUE, filename |-> filename,
                      history |-> team.set /\ "messages" \in DOMAIN team,
                      log |-> LogOf(Logged(r.fs, log_file, log_level, r.records)),
                      raised |-> r.raised, exc |-> r.exc]
    /\ fsBefore' = fs
    /\ UNCHANGED <<configFile, groq_api_key, log_file, log_level, has_messages, pc, servers, tool_functions, listed,
                   built, agents, team, conv, created>>
    /\ UNCHANGED <<ret, calls, written, local, upload>>

NextSave ==
    \/ SetupResearchTeam
    \/ SetupDevelopmentTeam
    \/ StartConversation
    \/ SaveConversationHistory

SpecSave == InitSave /\ [][NextSave]_vars

-----------------------------------------------------------------------------
(* create_github_repo.main() *)

InitUpload ==
    /\ local \in { [config |-> c,
                    files |-> (".env" :> e) @@ ("multi_agent_system.py" :> s),
                    workspace |-> w] :
                     c \in UploadConfigs, e \in EnvFiles,
                     s \in {AbsentLocal, SourceFile}, w \in WorkspaceFiles }
    /\ upload = NotStarted
    /\ configFile = AbsentFile
    /\ groq_api_key = TRUE
    /\ pc = "new"
    /\ servers = <<>>
    /\ tool_functions = <<>>
    /\ listed = NotListed
    /\ built = NotBuilt
    /\ agents = <<>>
    /\ team = NoTeam
    /\ conv = NoConversation
    /\ created = NoneCreated
    /\ saved = NotSaved
    /\ log_file = LogElsewhere
    /\ log_level = "INFO"
    /\ has_messages = FALSE
    /\ fs = BaseFs
    /\ fsBefore = fs
    /\ ret = NoCall
    /\ calls = 0
    /\ written = NoneWritten

UploadFrame ==
    UNCHANGED <<fsVars, configFile, groq_api_key, log_file, log_level, has_messages, pc, servers, tool_functions,
                listed, built, agents, team, conv, created, saved, local>>

\* token = get_github_token(); if not token: return
GetGithubToken ==
    /\ upload.pc = "start"
    /\ LET t == get_github_token(local.config) IN
       upload' = [upload EXCEPT
                    !.pc = IF t.err # "" THEN "failed: " \o t.err
                           ELSE IF ~t.found \/ t.value = "" THEN "returned: no token"
                           ELSE "token",
                    !.token = IF t.err = "" /\ t.found THEN t.value ELSE ""]
    /\ UploadFrame

\* repo_data = create_repository(...); if not repo_data: return;
\* owner = repo_data['owner']['login']
CreateRepository ==
    /\ upload.pc = "token"
    /\ \E answer \in PostAnswers :
         LET r == create_repository(answer) IN
         upload' = [upload EXCEPT
                      !.pc = IF r.err # "" THEN "failed: " \o r.err
                             ELSE IF ~r.repo THEN "returned: no repository"
                             ELSE IF answer.body = "no owner" THEN "failed: KeyError"
                             ELSE "repository"]
    /\ UploadFrame

\* The two loops of main that fill files_to_upload
PrepareFiles ==
    /\ upload.pc = "repository"
    /\ \E ws \in Perms(local.workspace) :
         LET q == QueueFiles(local, all_files) IN
         upload' = [upload EXCEPT
                      !.pc = IF q.err # "" THEN "failed: " \o q.err ELSE "queued",
                      !.queue = IF q.err # "" THEN <<>>
                                ELSE q.items \o WorkspaceItems(ws)]
    /\ UploadFrame

\* if files_to_upload: success = upload_multiple_files(...), one answer of the
\* GitHub API for each PUT
UploadFiles ==
    /\ upload.pc = "queued"
    /\ \E answers \in [DOMAIN upload.queue -> PutAnswers] :
         LET u == upload_multiple_files(upload.queue, answers) IN
         upload' = [upload EXCEPT
                      !.pc = IF upload.queue = <<>> THEN "returned: no files"
                             ELSE IF u.err # "" THEN "failed: " \o u.err
                             ELSE IF u.success_count = Len(upload.queue)
                                  THEN "returned: uploaded"
                             ELSE "returned: some failed",
                      !.puts = u.puts,
                      !.uploaded = u.success_count]
    /\ UploadFrame

NextUpload ==
    \/ GetGithubToken
    \/ CreateRepository
    \/ PrepareFiles
    \/ UploadFiles

SpecUpload == InitUpload /\ [][NextUpload]_vars

-----------------------------------------------------------------------------
(* Containment of the file tools in the workspace *)

ResolvedNode(arg) == Normal(Start(WorkspacePath(arg)), WorkspacePath(arg).parts)

\* The path argument resolves outside the workspace root
Escapes(arg) == arg.isStr /\ ~InWorkspace(ResolvedNode(arg))

\* Nothing outside the workspace was created, removed or modified by the last call
OutsideUnchanged ==
    \A n \in DOMAIN fs \cup DOMAIN fsBefore :
        ~InWorkspace(n) =>
            /\ n \in DOMAIN fs
            /\ n \in DOMAIN fsBefore
            /\ fs[n] = fsBefore[n]

\* C1: a write_file whose path resolves outside the workspace root changes
\* nothing outside the root and does not report success.
C1_WriteContained ==
    (ret.op = "write_file" /\ Escapes(ret.arg)) =>
        /\ OutsideUnchanged
        /\ ret.value # "File written successfully: " \o ret.arg.str

\* C2: a read_file whose path resolves outside the workspace root does not
\* return the content of the file there, and a list_files whose path resolves
\* outside the root does not return the names of the entries of the directory
\* there.
C2_ReadListContained ==
    LET n == ResolvedNode(ret.arg) IN
    /\ (ret.op = "read_file" /\ Escapes(ret.arg)
          /\ n \in DOMAIN fsBefore /\ fsBefore[n].type = "file")
       => ret.value # Str(ReadTranslate(fsBefore[n].data))
    /\ (ret.op = "list_files" /\ Escapes(ret.arg)
          /\ n \in DOMAIN fsBefore /\ fsBefore[n].type = "dir")
       => \A order \in Perms(Children(fsBefore, n)) :
            ret.value # "Files in " \o ret.arg.str \o ": "
                         \o JoinStr([i \in DOMAIN order |-> Last(order[i])], ", ")

\* C3: a successful write_file(p, c) with p inside the workspace, immediately
\* followed by read_file(p), makes the read return exactly c.
C3_RoundTrip ==
    [][ ( /\ ret.op = "write_file"
          /\ ret.arg \in InsideArgs
          /\ ret.content.isStr
          /\ ret.value = "File written successfully: " \o ret.arg.str
          /\ calls' = calls + 1
          /\ ret'.op = "read_file"
          /\ ret'.arg = ret.arg )
        => ret'.value = Str(ret.content.chars) ]_vars

\* The body of the last tool call, run again on the file system it started from
LastBody ==
    CASE ret.op = "read_file" -> ReadFileBody(fsBefore, ret.arg)
      [] ret.op = "write_file" -> WriteFileBody(fsBefore, ret.arg, ret.content)
      [] ret.op = "list_files" -> ListFilesBody(fsBefore, ret.arg, <<>>)

ErrorPrefix ==
    CASE ret.op = "read_file" -> "Error reading file: "
      [] ret.op = "write_file" -> "Error writing file: "
      [] ret.op = "list_files" -> "Error listing files: "

\* C4: no call of read_file, write_file or list_files raises to its caller; it
\* yields a string, and when the body raised, the string is the tool's error
\* prefix followed by the text of the exception.
C4_SoftFail ==
    ret.op \in {"read_file", "write_file", "list_files"} =>
        /\ ~ret.raised
        /\ ret.value \in STRING
        /\ LastBody.exc => ret.value = ErrorPrefix \o LastBody.msg

\* A write_file whose body raised IsADirectoryError returned the error text.
C4_Witness ==
    /\ ret.op = "write_file"
    /\ LastBody.exc
    /\ ~ret.raised
    /\ ret.value = "Error writing file: [Errno 21] Is a directory: 'workspace'"

-----------------------------------------------------------------------------
(* Conversations and the tool listing *)

\* C6: a conversation that start_conversation started with a team whose
\* termination condition is max_messages = M has exactly M messages in the
\* team's thread when start_conversation has returned.
C6_ExactlyMaxMessages ==
    conv.status = "success" => Len(team.thread) = team.max_messages

\* C10: for a configuration file whose servers are objects with distinct names,
\* get_available_tools raises nothing and returns one entry per server, named
\* as the servers are and in the order of the file.
C10_ListTools ==
    (pc = "ready" /\ WellFormed(configFile) /\ listed.called) =>
        /\ listed.err = ""
        /\ Len(listed.tools) = Len(configFile.pairs)
        /\ \A i \in DOMAIN listed.tools : listed.tools[i].name = configFile.pairs[i][1]

\* The tools of two servers were listed, the servers not in alphabetical
\* order and one of them without a description.
C10_Witness ==
    /\ pc = "ready" /\ WellFormed(configFile) /\ listed.called
    /\ Len(listed.tools) = 2
    /\ listed.tools[1].name = "github"
    /\ listed.tools[2].name = "fs"
    /\ listed.tools[2].description = ""

-----------------------------------------------------------------------------
(* The tools built from the configured groups *)

\* The server names load_config reads from the file
ConfiguredNames(file) ==
    IF file.exists /\ ~file.malformed /\ file.hasServers
    THEN { file.pairs[i][1] : i \in DOMAIN file.pairs }
    ELSE {}

FileToolNames == {"read_file", "write_file", "list_files"}

RemoteToolNames == {"github_search", "github_list_repos", "github_get_file"}

\* C11: the tool functions of a constructed system are the file tools exactly
\* when the file names an "fs" server, the GitHub tools exactly when it names a
\* "github" server, and nothing else.
C11_ToolGroups ==
    pc = "ready" =>
        /\ \A t \in FileToolNames :
             t \in Range(tool_functions) <=> "fs" \in ConfiguredNames(configFile)
        /\ \A t \in RemoteToolNames :
             t \in Range(tool_functions) <=> "github" \in ConfiguredNames(configFile)
        /\ Range(tool_functions) \subseteq FileToolNames \cup RemoteToolNames

\* A system built from a file with "fs" and no "github": the three file tools
\* and no github_list_repos.
C11_Witness ==
    /\ pc = "ready"
    /\ ConfiguredNames(configFile) = {"fs", "brave-search"}
    /\ tool_functions = <<"read_file", "write_file", "list_files">>
    /\ "github_list_repos" \notin Range(tool_functions)

\* The file without the members whose name is no recognized group
Recognized(file) ==
    [file EXCEPT !.pairs = SelectSeq(file.pairs,
                                     LAMBDA pr : pr[1] \in {"fs", "github"})]

\* C12: with an API key and a file that is absent or JSON, construction
\* succeeds whatever unrecognized servers the file names, and the tool
\* functions are those built from the file without the unrecognized servers.
C12_UnrecognizedIgnored ==
    (pc # "new" /\ groq_api_key /\ ~configFile.malformed) =>
        /\ pc = "ready"
        /\ tool_functions =
             create_tool_functions(load_config(Recognized(configFile)).servers)

\* A system built from a file naming the unrecognized "brave-search" before
\* "fs" has the file tools only.
C12_Witness ==
    /\ pc = "ready"
    /\ Len(configFile.pairs) = 2
    /\ configFile.pairs[1][1] = "brave-search"
    /\ configFile.pairs[2][1] = "fs"
    /\ tool_functions = <<"read_file", "write_file", "list_files">>

-----------------------------------------------------------------------------
(* Loading the configuration *)

\* Nothing was built: no tool functions, no agents, no team, no conversation
NothingBuilt ==
    /\ servers = <<>>
    /\ tool_functions = <<>>
    /\ ~built.called
    /\ agents = <<>>
    /\ ~team.set
    /\ conv = NoConversation

\* servers maps every name of the file to the last configuration the file
\* gives for it, and has no other key
IsMappingOf(file) ==
    /\ { servers[i].key : i \in DOMAIN servers } = ConfiguredNames(file)
    /\ \A i, j \in DOMAIN servers : servers[i].key = servers[j].key => i = j
    /\ \A i \in DOMAIN servers :
         \E k \in DOMAIN file.pairs :
            /\ file.pairs[k][1] = servers[i].key
            /\ file.pairs[k][2] = servers[i].val
            /\ \A l \in DOMAIN file.pairs :
                 file.pairs[l][1] = servers[i].key => l <= k

\* C14 as stated: once construction ran with an API key, an absent or malformed
\* file made it fail with ConfigurationError and nothing was built; any other
\* file gave the mapping.
C14_FailsOnAbsentOrMalformed ==
    (pc # "new" /\ groq_api_key) =>
        IF ~configFile.exists \/ configFile.malformed
        THEN pc = "failed: ConfigurationError" /\ NothingBuilt
        ELSE pc = "ready" /\ IsMappingOf(configFile)

-----------------------------------------------------------------------------
(* The agents' prompts and names *)

\* C16 as stated: the tools the usage-hint catalog of every agent's prompt names
\* are the tools bound to the agent, in the same order.
C16_CatalogIsBoundTools ==
    \A i \in DOMAIN agents : agents[i].val.catalog = agents[i].val.tools

\* The agents of the sequence a have pairwise different names
DistinctNames(a) == \A i, j \in DOMAIN a : a[i].name = a[j].name => i = j

\* C17 as stated: the agents of the current team have different names, and no
\* name was given to a second agent of the session (the second creation failed).
C17_NoNameGivenTwice ==
    /\ DistinctNames(team.participants)
    /\ created.again = {}

-----------------------------------------------------------------------------
(* The preset teams *)

NamesOf(a) == [i \in DOMAIN a |-> a[i].name]

ResearchNames == <<"Researcher", "Analyst", "TechnicalExpert", "Coordinator">>

DevelopmentNames == <<"Developer", "Architect", "Tester", "DevOps">>

\* The team is the four agents of the agents dict, named names, in that order
TeamIs(names) ==
    /\ team.set
    /\ Len(team.participants) = 4
    /\ NamesOf(team.participants) = names
    /\ team.participants = Values(agents)

\* C18: setup_research_team leaves a team of exactly Researcher, Analyst,
\* TechnicalExpert, Coordinator in this order, and setup_development_team one of
\* exactly Developer, Architect, Tester, DevOps in this order.
C18_PresetOrder ==
    [][/\ SetupResearchTeam => TeamIs(ResearchNames)'
       /\ SetupDevelopmentTeam => TeamIs(DevelopmentNames)']_vars

\* The development team set up after the research team
C18_Witness ==
    /\ TeamIs(DevelopmentNames)
    /\ Keys(agents) = <<"developer", "architect", "tester", "devops">>
    /\ "Researcher" \in created.once

-----------------------------------------------------------------------------
(* What a write leaves for the later calls *)

\* The path argument d names the parent directory of the path argument p
IsParentOf(d, p) ==
    /\ d.isStr /\ p.isStr
    /\ p.parts # <<>>
    /\ d.abs = p.abs
    /\ d.parts = Front(p.parts)

\* The last call listed the directory that holds the file written as p, and
\* the returned listing has p's name
ListsName(p) ==
    LET d == ResolvedNode(ret.arg) IN
    \E order \in Perms(Children(fs, d)) :
       /\ ret.value = "Files in " \o ret.arg.str \o ": "
                        \o JoinStr([i \in DOMAIN order |-> Last(order[i])], ", ")
       /\ ResolvedNode(p) \in Range(order)

\* C19 as stated: a read_file of a path that was written with success returns
\* the content last written to it, and a list_files of the directory holding a
\* written path has its name, however many calls were made in between.
C19_WritesVisible ==
    /\ (ret.op = "read_file" /\ ret.arg \in DOMAIN written)
         => ret.value = Str(written[ret.arg])
    /\ (ret.op = "list_files" /\ ret.arg.isStr)
         => \A p \in DOMAIN written :
              IsParentOf(ret.arg, p) => ListsName(p)

\* The last call was write_file with a path inside the workspace and a string
WroteInside ==
    /\ ret.op = "write_file"
    /\ ret.arg \in InsideArgs
    /\ ret.content.isStr

\* The last call returned success and left the file of its path holding
\* exactly its content, in a directory
WroteExactly ==
    LET n == ResolvedNode(ret.arg) IN
    /\ ret.value = "File written successfully: " \o ret.arg.str
    /\ n \in DOMAIN fs
    /\ fs[n] = File(ret.content.chars)
    /\ fs[Front(n)] = Dir

\* The parent directory of the last call's path did not exist when it started
ParentMissing == ~Exists(fsBefore, Parent(WorkspacePath(ret.arg)))

\* The parent of the last call's path was a regular file when the call started
ParentIsFile ==
    /\ Exists(fsBefore, Parent(WorkspacePath(ret.arg)))
    /\ ~IsDir(fsBefore, Parent(WorkspacePath(ret.arg)))

\* The last call's path held a file when the call started
HeldFile ==
    LET n == ResolvedNode(ret.arg) IN
    n \in DOMAIN fsBefore /\ fsBefore[n].type = "file"

\* No component of the last call's path above its name was a regular file
\* when the call started
NoFileAbove ==
    LET n == ResolvedNode(ret.arg) IN
    \A k \in 1..(Len(n) - 1) :
       SubSeq(n, 1, k) \in DOMAIN fsBefore => fsBefore[SubSeq(n, 1, k)].type = "dir"

\* C20 as stated: a write_file to a path inside the workspace whose parent
\* directory does not exist creates the directories and the file, and one to a
\* path that holds a file leaves exactly the new content.
C20_AlwaysCreatesParents ==
    WroteInside =>
        /\ ParentMissing => WroteExactly
        /\ HeldFile => WroteExactly

\* C20, amended: the same when no component of the path above the file name is
\* a regular file.  When the parent of the path is a regular file the write
\* changes nothing and returns the error string of FileExistsError (Errno 17)
\* naming the parent; when the parent is missing below a regular file, that of
\* NotADirectoryError (Errno 20) naming the parent.
C20_CreatesAndOverwrites ==
    WroteInside =>
        /\ (ParentMissing /\ NoFileAbove) => WroteExactly
        /\ HeldFile => WroteExactly
        /\ ParentIsFile =>
              /\ fs = fsBefore
              /\ ret.value = "Error writing file: "
                   \o OSErrorStr("EEXIST", Parent(WorkspacePath(ret.arg)))
        /\ (ParentMissing /\ ~NoFileAbove) =>
              /\ fs = fsBefore
              /\ ret.value = "Error writing file: "
                   \o OSErrorStr("ENOTDIR", Parent(WorkspacePath(ret.arg)))

\* sub/a.txt, created with its directories by an earlier call and holding
\* "hi", written again with the empty string
C20_Witness ==
    /\ WroteInside
    /\ ret.arg.str = "sub/a.txt"
    /\ HeldFile
    /\ WroteExactly
    /\ fsBefore[ResolvedNode(ret.arg)] = File(<<"h", "i">>)
    /\ fs[ResolvedNode(ret.arg)] = File(<<>>)

-----------------------------------------------------------------------------
(* Missing paths *)

\* C21: a read_file of a path that does not exist returns the not-found string
\* for its argument, does not raise, and leaves the file system as it was.
C21_ReadMissing ==
    (ret.op = "read_file" /\ ret.arg.isStr
       /\ ~Exists(fsBefore, WorkspacePath(ret.arg)))
      => /\ ret.value = "File not found: " \o ret.arg.str
         /\ ~ret.raised
         /\ fs = fsBefore

\* sub/a.txt read in a working directory that has no workspace directory
C21_Witness ==
    /\ ret.op = "read_file"
    /\ ret.arg.str = "sub/a.txt"
    /\ Workspace \notin DOMAIN fsBefore
    /\ ret.value = "File not found: sub/a.txt"
    /\ Workspace \notin DOMAIN fs

\* C22: a list_files of a path that is missing or is no directory returns the
\* not-found string for its argument; of a directory, it returns "Files in",
\* the argument, and the names of exactly the direct entries of the directory,
\* each once, joined by ", ".  The file system is left as it was.
C22_ListOrNotFound ==
    (ret.op = "list_files" /\ ret.arg.isStr) =>
        LET workspace_path == WorkspacePath(ret.arg) IN
        /\ fs = fsBefore
        /\ ~ret.raised
        /\ IF IsDir(fsBefore, workspace_path)
           THEN \E order \in Perms(Children(fsBefore,
                                            Lookup(fsBefore, workspace_path).node)) :
                   ret.value = "Files in " \o ret.arg.str \o ": "
                       \o JoinStr([i \in DOMAIN order |-> Last(order[i])], ", ")
           ELSE ret.value = "Directory not found: " \o ret.arg.str

\* The workspace listed when it holds the directory sub, which holds a.txt:
\* sub is named, a.txt is not.
C22_Witness ==
    /\ ret.op = "list_files"
    /\ ret.arg.str = "."
    /\ Append(Append(Workspace, "sub"), "a.txt") \in DOMAIN fs
    /\ ret.value = "Files in .: sub"

-----------------------------------------------------------------------------
(* The remote-repository tools *)

\* C23: a call of github_search, github_list_repos or github_get_file, with
\* strings or None, returns a string, does not raise, and leaves every file and
\* directory as it was.
C23_RemoteSoftFail ==
    ret.op \in {"github_search", "github_list_repos", "github_get_file"} =>
        /\ ~ret.raised
        /\ ret.value \in STRING
        /\ ret.value # ""
        /\ fs = fsBefore

\* github_list_repos(None) called after a file was written in the workspace
C23_Witness ==
    /\ ret.op = "github_list_repos"
    /\ ret.args = <<NoneContent>>
    /\ ret.value = "Listing your repositories: [Connected via MCP GitHub server]"
    /\ Append(Workspace, "a.txt") \in DOMAIN fs

-----------------------------------------------------------------------------
(* Saving the conversation history *)

\* json.load of the destination: the messages it holds, or a failure when it
\* is missing, is a directory or holds no JSON list
ReadBack(f, filename) ==
    IF Exists(f, filename) /\ ~IsDir(f, filename)
    THEN JsonLoad(ReadTranslate(f[Lookup(f, filename).node].data))
    ELSE [ok |-> FALSE, messages |-> <<>>]

\* open(filename, 'w') fails on the file system f
Unwritable(f, filename) == OpenWrite(f, filename, <<>>).err # ""

\* The conversation log of the session: the thread of the team, and no
\* message when no team has been set up
ConversationLog == IF team.set THEN team.thread ELSE <<>>

\* C25 as stated: once a save of the conversation log returned, reading the
\* destination back gives the messages of the log, in order.
C25_SavedLogReadsBack ==
    (saved.called /\ ~saved.raised) =>
        ReadBack(fs, saved.filename) = [ok |-> TRUE, messages |-> ConversationLog]

\* C26 as stated: a save of a team's conversation to a destination that cannot
\* be written raised PersistenceError to its caller.
C26_UnwritableReported ==
    (saved.called /\ team.set /\ Unwritable(fsBefore, saved.filename)) =>
        /\ saved.raised
        /\ saved.exc = "PersistenceError"

\* C29 as stated: a save made when there is no team, or a team that has no
\* messages attribute, returns without raising and leaves every file as it was;
\* so does the save that follows a start_conversation.
C29_SaveWritesNothing ==
    saved.called =>
        /\ ~saved.history => (fs = fsBefore /\ ~saved.raised)
        /\ conv.status = "success" => fs = fsBefore

\* C29 amended: a save made when there is no team, or a team that has no
\* messages attribute, returns without raising and leaves every file but the
\* log file as it was; the log file gains the warning of the save when the
\* level of the log passes warnings, and nothing otherwise.  A save that
\* returned with a file other than the log changed was made on a team that has
\* the attribute, and the destination then reads back as a JSON list.  The
\* save that follows a start_conversation is of the first kind when the
\* library's team has no messages attribute.
C29_SaveWritesOnlyLog ==
    saved.called =>
        /\ ~saved.history
             => /\ SansLog(fs) = SansLog(fsBefore)
                /\ ~saved.raised
                /\ saved.log = LogOf(fsBefore) \o
                      (IF log_file = LogDefault /\ log_level \in {"INFO", "WARNING"}
                       THEN <<NoHistory.line>> ELSE <<>>)
        /\ (saved.history /\ ~saved.raised)
             => /\ ReadBack(fs, saved.filename).ok
                /\ saved.log = LogOf(fsBefore) \o
                      (IF log_file = LogDefault /\ log_level = "INFO"
                       THEN <<HistorySaved(saved.filename).line>> ELSE <<>>)
        /\ (conv.status = "success" /\ ~has_messages)
             => SansLog(fs) = SansLog(fsBefore)

\* After start_conversation on a team without the attribute, the save to
\* research_conversation.json left the file of an earlier run as it was and
\* appended its warning to the log file.
C29_Witness ==
    /\ conv.status = "success"
    /\ team.set
    /\ ~has_messages
    /\ saved.called
    /\ ~saved.history
    /\ saved.filename = ResearchHistory
    /\ ~saved.raised
    /\ Append(Cwd, "research_conversation.json") \in DOMAIN fs
    /\ fs[Append(Cwd, "research_conversation.json")] = File(OldHistory)
    /\ Len(LogOf(fs)) > 0
    /\ saved.log = LogOf(fs)
    /\ Last(LogOf(fs)) = NoHistory.line

-----------------------------------------------------------------------------
(* Replacing the team, and refusing a team type *)

\* The agents dict holds exactly the agents keys, named names, in this order,
\* and the team's participants are exactly these agents
AgentsAre(keys, names) ==
    /\ Keys(agents) = keys
    /\ NamesOf(Values(agents)) = names
    /\ team.set
    /\ team.participants = Values(agents)

\* The step is a start_conversation that set up the team of team_type
Started(team_type) ==
    /\ StartConversation
    /\ conv'.status = "success"
    /\ conv'.team_type = team_type

\* C27: every set-up of a preset, by setup_research_team, setup_development_team
\* or start_conversation, leaves the agents dict and the team's participants
\* being exactly the four agents of that preset, whatever team was there before.
C27_SetupReplaces ==
    [][/\ (SetupResearchTeam \/ Started("research")) =>
            AgentsAre(<<"researcher", "analyst", "technical", "coordinator">>,
                      ResearchNames)'
       /\ (SetupDevelopmentTeam \/ Started("development")) =>
            AgentsAre(<<"developer", "architect", "tester", "devops">>,
                      DevelopmentNames)']_vars

\* start_conversation("research") after a development team was set up: no
\* agent of the development team remains.
C27_Witness ==
    /\ conv.status = "success"
    /\ conv.team_type = "research"
    /\ "Developer" \in created.once
    /\ AgentsAre(<<"researcher", "analyst", "technical", "coordinator">>,
                 ResearchNames)
    /\ \A i \in DOMAIN agents : agents[i].val.name \notin Range(DevelopmentNames)

\* C28: a start_conversation with a team type other than "research" and
\* "development" raises ValueError and leaves the agents and the team as they
\* were.
C28_UnknownTypeFrame ==
    [][(StartConversation /\ conv'.status = "ValueError") =>
          /\ conv'.team_type \notin {"research", "development"}
          /\ agents' = agents
          /\ team' = team
          /\ created' = created]_vars

\* start_conversation("custom") refused when no team was ever set up
C28_Witness ==
    /\ conv.status = "ValueError"
    /\ conv.team_type = "custom"
    /\ created.once = {}
    /\ agents = <<>>
    /\ ~team.set

-----------------------------------------------------------------------------
(* What the repository-creation script queues for upload *)

\* The queued items whose path is path
Queued(path) == { i \in DOMAIN upload.queue : upload.queue[i].path = path }

\* The servers of the queued item i carry the placeholder as the GitHub token,
\* and the token that was read from the local file nowhere in their env
TokenRedacted(i) ==
    LET c == upload.queue[i].content IN
    /\ c.isJson
    /\ \A j \in DOMAIN c.config :
         "env" \in DOMAIN c.config[j].val =>
            /\ c.config[j].key = "github" => c.config[j].val.env[TokenKey] = Placeholder
            /\ \A k \in DOMAIN c.config[j].val.env :
                 c.config[j].val.env[k] # upload.token

\* C30: nothing is queued under the name .env or with the content of the local
\* .env; a readable .env is queued as .env.template with the fixed template;
\* and once files are queued, mcp_servers.json is among them with the
\* placeholder in place of the GitHub token.
C30_SecretsRedacted ==
    LET env == local.files[".env"] IN
    upload.pc \notin {"start", "token", "repository"} =>
        /\ Queued(".env") = {}
        /\ \A i \in DOMAIN upload.queue :
             (env.exists /\ env.readable) => upload.queue[i].content # env.content
        /\ \A i \in Queued(".env.template") :
             upload.queue[i].content = TextContent(EnvTemplate)
        /\ (upload.queue # <<>> /\ env.exists /\ env.readable)
             => Queued(".env.template") # {}
        /\ \A i \in Queued("mcp_servers.json") : TokenRedacted(i)
        /\ upload.queue # <<>> => Queued("mcp_servers.json") # {}

\* Every queued file was uploaded from a directory whose .env holds a secret
\* and whose mcp_servers.json holds a token and another server's key: the
\* template and the redacted configuration are in the queue.
C30_Witness ==
    /\ upload.pc = "returned: uploaded"
    /\ upload.token = "ghp_AAAA"
    /\ local.files[".env"].content = TextContent("GROQ_API_KEY=gsk_1")
    /\ Len(local.config.pairs) = 2
    /\ Queued(".env.template") # {}
    /\ \E i \in Queued("mcp_servers.json") :
         /\ TokenRedacted(i)
         /\ HasKey(upload.queue[i].content.config, "brave-search")

====
